---- MODULE Spec2Model ----
(***************************************************************************)
(* Staging-to-warehouse synchronisation of the marina pipeline.            *)
(*                                                                         *)
(* Spec      : a full pipeline run (download_csv_from_s3.py __main__):     *)
(*             the MOLO phase (read_s3_zip_and_insert_to_db) followed by   *)
(*             the Stellar phase (process_stellar_data_from_s3), run again *)
(*             and again against the same database.                        *)
(* PredSpec  : the change predicate of generate_where_clause.py, built     *)
(*             for a table and evaluated on a warehouse row and a staged   *)
(*             row that the loader's helpers normalized from CSV fields.   *)
(* MergeSpec : one entity's clear -> stage -> reconcile cycle, repeated,   *)
(*             with the MERGE procedure that update_stored_procedure       *)
(*             deployed.  The MERGE statement itself lives in              *)
(*             stored_procedures/*.sql and is modelled from its described  *)
(*             behaviour.                                                  *)
(***************************************************************************)
EXTENDS Integers, Sequences, FiniteSets, TLC

\* ------------------------------------------------------------------ bounds
NumMolo == 2
NumStellar == 2
MaxRows == 1

\* ----------------------------------------------------- static configuration
TARGET_CSV_FILES ==
    << "MarinaLocations", "Slips", "SlipTypes", "Reservations",
       "Piers", "Companies", "Contacts", "Boats",
       "Accounts", "InvoiceSet", "InvoiceItemSet", "Transactions",
       "ItemMasters", "SeasonalPrices", "TransientPrices", "RecordStatusSet",
       "BoatTypes", "PowerNeeds", "ReservationStatus", "ReservationTypes",
       "ContactTypes", "InvoiceStatusSet", "InvoiceTypeSet", "TransactionTypeSet",
       "TransactionMethodSet", "InsuranceSet", "EquipmentSet", "AccountStatus",
       "ContactAutoChargeSet", "StatementsPreferenceSet", "InvoiceItemTypeSet", "PaymentMethods",
       "SeasonalChargeMethods", "SeasonalInvoicingMethodSet", "TransientChargeMethods", "TransientInvoicingMethodSet",
       "RecurringInvoiceOptionsSet", "DueDateSettingsSet", "ItemChargeMethods", "InsuranceStatusSet",
       "EquipmentTypeSet", "EquipmentFuelTypeSet", "VesselEngineClassSet", "Cities",
       "Countries", "CurrenciesSet", "PhoneTypes", "AddressTypeSet",
       "InstalmentsPaymentMethodSet", "PaymentsProviderSet" >>

tables_to_process ==
    << "customers", "locations", "seasons", "accessories",
       "accessory_options", "accessory_tiers", "amenities", "categories",
       "holidays", "bookings", "booking_boats", "booking_payments",
       "booking_accessories", "style_groups", "styles", "style_boats",
       "customer_boats", "season_dates", "style_hourly_prices", "style_times",
       "style_prices", "club_tiers", "coupons", "pos_items",
       "pos_sales", "fuel_sales", "waitlists", "closed_dates",
       "blacklists" >>

\* The MOLO insert_* methods whose except handler rolls back and re-raises
\* (insert_marina_locations, insert_piers, insert_slip_types); the other 47
\* roll back and return normally.
InsertReraises == {"MarinaLocations", "Piers", "SlipTypes"}

\* The entities of the model: the first NumMolo targets, the first NumStellar
\* tables.
MoloEntities == {TARGET_CSV_FILES[i] : i \in 1..NumMolo}
StellarEntities == {tables_to_process[i] : i \in 1..NumStellar}
AllEntities == MoloEntities \cup StellarEntities

\* extracted_csv_data: a dict filled in archive order, one key per target CSV
\* found in the archive.  Its iteration order is the archive's order.
Archives ==
    UNION {{a \in [1..n -> MoloEntities] :
                \A i, j \in 1..n : i # j => a[i] # a[j]} : n \in 0..NumMolo}

\* What a staging table holds, by provenance of its rows: "fresh" rows were
\* bulk-inserted by the current run, "stale" rows by an earlier run.
Provenance == {"stale", "fresh"}

\* Logical time of the events of one run, in program order: the MOLO
\* truncation, iteration i of the MOLO loop, the merge call, then the
\* TRUNCATE and the insert of iteration i of the Stellar loop.
MergeTime == NumMolo + 2
MoloTruncateTime == MergeTime - NumMolo - 1
MoloInsertTime(i) == MoloTruncateTime + i
StellarTruncateTime(i) == MergeTime + 2 * i - 1
StellarInsertTime(i) == MergeTime + 2 * i

VARIABLES
    pc,                 \* position of the pipeline run
    stg,                \* staging tables: entity -> provenance of its rows
    \* locals of read_s3_zip_and_insert_to_db
    archive,            \* extracted_csv_data, as the sequence of its keys
    mi,                 \* position of the MOLO loop in archive
    processed_count,
    skipped_count,
    error_count,
    db,                 \* the OracleConnector: "none", "open" or "closed"
    \* locals of process_stellar_data_from_s3
    si,                 \* position of the Stellar loop in tables_to_process
    successful_tables,
    failed_tables,
    total_records,
    \* history of the running function, kept for the properties
    attempts,           \* entity -> number of loop iterations spent on it
    result,             \* entity -> the outcome counter it incremented
    clearFailed,        \* entity -> its TRUNCATE raised
    insertIssued,       \* entity -> executemany was issued
    rejected,           \* entity -> the database rejected its executemany
    emptyPayload,       \* entity -> its payload parsed to zero rows
    tClear,             \* entity -> time its TRUNCATE was issued (0: never)
    tInsert,            \* entity -> time its executemany was issued
    \* history of the run
    tMerge,             \* time SP_RUN_ALL_MOLO_STELLAR_MERGES was called
    mergeStatus,        \* how that call ended
    \* what the run reports
    merge_message,      \* the line logged after db.run_all_merges()
    summary_message,    \* the last line of the MOLO summary
    entityFailed,       \* some entity of the run was recorded as failed
    exit_status         \* {} while the process runs, {code} once it ended

moloLocals == <<archive, mi, processed_count, skipped_count, error_count>>
stellarLocals == <<si, successful_tables, failed_tables, total_records>>
history == <<attempts, result, clearFailed, insertIssued, rejected,
             emptyPayload, tClear, tInsert>>
report == <<merge_message, summary_message, entityFailed, exit_status>>
pipeVars == <<pc, stg, moloLocals, stellarLocals, history, tMerge,
              mergeStatus, db, report>>


VARIABLES
    \* the change predicate of one table, generated and evaluated
    ppc,                \* position: "drawn", "staged", "generated", "evaluated"
    columns_info,       \* rows of USER_TAB_COLUMNS for the warehouse table
    rawTgt,             \* CSV fields the warehouse row was loaded from
    rawSrc,             \* CSV fields of the row now being staged
    tgt,                \* the warehouse row, one value per column
    src,                \* the staged row, one value per column
    where_clause,       \* what generate_where_clause returned
    predicate           \* truth value of the WHERE clause on (tgt, src)

predVars == <<ppc, columns_info, rawTgt, rawSrc, tgt, src, where_clause,
              predicate>>

VARIABLES
    \* one entity's clear -> stage -> reconcile cycle against its warehouse table
    mpc,                \* position: "deploy", "clear", "stage", "reconcile"
    proc,               \* the MERGE procedure as deployed
    payload,            \* this cycle's CSV rows: key -> fields, or absent
    staging,            \* the staging table: a set of rows
    dw,                 \* the warehouse table: key -> row, or absent
    systimestamp,       \* the database clock
    cycle,              \* number of cycles completed
    prev_payload,       \* the payload of the cycle before
    dw_before,          \* the warehouse table before the last MERGE
    rows_updated,       \* rows the last MERGE updated
    merge_result        \* how the last run_all_merges call ended

mergeVars == <<mpc, proc, payload, staging, dw, systimestamp, cycle,
               prev_payload, dw_before, rows_updated, merge_result>>

VARIABLES
    \* one CSV column run through one normalizer by the row loop of a parser
    npc,                \* position: "parsing", "returned"
    normalizer,         \* the helper or tuple expression applied to the field
    cells,              \* the field's raw value in each data row of the CSV
    ri,                 \* position of `for row in csv_reader`
    outcomes,           \* what the normalizer did on each row so far
    records,            \* the records appended so far
    staged_rows         \* the rows executemany bound to the staging INSERT

normVars == <<npc, normalizer, cells, ri, outcomes, records, staged_rows>>

VARIABLES
    \* one run of a WHERE clause tool on one table and its procedure file
    gpc,                \* position: "start", "generated", "done"
    live_columns,       \* USER_TAB_COLUMNS rows of the warehouse table
    proc_file_given,    \* len(sys.argv) >= 3
    content,            \* the procedure file
    content_before,     \* the procedure file when the tool started
    tool,               \* the script that ran last
    new_where_clause,   \* what the generator returned: None or a clause
    warnings            \* data types reported as unknown

genVars == <<gpc, live_columns, proc_file_given, content, content_before,
             tool, new_where_clause, warnings>>

VARIABLES
    \* one run of deploy_updated_procedures.py
    dpc,                \* position: "loop", "summary", "exited"
    proc_index,         \* position of `for proc_file in UPDATED_PROCEDURES`
    success_count,
    deploy_error_count, \* error_count of deploy_updated_procedures.main
    errors,             \* the (procedure, message) pairs collected
    deploy_exit         \* the status passed to sys.exit

deployVars == <<dpc, proc_index, success_count, deploy_error_count, errors,
                deploy_exit>>

vars == <<pipeVars, predVars, mergeVars, normVars, genVars, deployVars>>

\* --------------------------------------------------------------- run state
NoEntityHistory ==
    [attempts |-> [e \in AllEntities |-> 0],
     result |-> [e \in AllEntities |-> "pending"],
     flags |-> [e \in AllEntities |-> FALSE],
     times |-> [e \in AllEntities |-> 0]]

FreshMoloLocals ==
    /\ archive' = <<>>
    /\ mi' = 1
    /\ processed_count' = 0
    /\ skipped_count' = 0
    /\ error_count' = 0

FreshStellarLocals ==
    /\ si' = 1
    /\ successful_tables' = 0
    /\ failed_tables' = <<>>
    /\ total_records' = 0

FreshHistory ==
    /\ attempts' = NoEntityHistory.attempts
    /\ result' = NoEntityHistory.result
    /\ clearFailed' = NoEntityHistory.flags
    /\ insertIssued' = NoEntityHistory.flags
    /\ rejected' = NoEntityHistory.flags
    /\ emptyPayload' = NoEntityHistory.flags
    /\ tClear' = NoEntityHistory.times
    /\ tInsert' = NoEntityHistory.times

PipeInit ==
    /\ pc = "molo_start"
    /\ stg = [e \in AllEntities |-> {}]
    /\ archive = <<>>
    /\ mi = 1
    /\ processed_count = 0
    /\ skipped_count = 0
    /\ error_count = 0
    /\ si = 1
    /\ successful_tables = 0
    /\ failed_tables = <<>>
    /\ total_records = 0
    /\ attempts = NoEntityHistory.attempts
    /\ result = NoEntityHistory.result
    /\ clearFailed = NoEntityHistory.flags
    /\ insertIssued = NoEntityHistory.flags
    /\ rejected = NoEntityHistory.flags
    /\ emptyPayload = NoEntityHistory.flags
    /\ tClear = NoEntityHistory.times
    /\ tInsert = NoEntityHistory.times
    /\ tMerge = 0
    /\ mergeStatus = "none"
    /\ db = "none"
    /\ merge_message = "none"
    /\ summary_message = "none"
    /\ entityFailed = FALSE
    /\ exit_status = {}

\* ------------------------------------------------------------- MOLO phase
\* A handler that ends the loop instead of continuing it.
MoloBreak(i, n) == n + 1

\* `continue` in the except handler of the MOLO loop: the for loop goes on
\* with the next key of extracted_csv_data.
MoloContinue(i, n) == i + 1

\* Whether an exception raised by executemany leaves insert_<entity>.
InsertPropagates(e) == e \in InsertReraises

\* A try body that counts the file as processed before it parses and inserts.
CountProcessedEarly(count, propagated) == count + 1

\* `processed_count += 1` is the last statement of every branch of the try
\* body: it runs only when no exception left the parser or the insert.
CountProcessed(count, propagated) ==
    IF propagated THEN count ELSE count + 1

\* One iteration of the MOLO loop on entity e ends either in the try body's
\* `processed_count += 1` or, when an exception reached the loop, in the
\* except handler's `error_count += 1; continue`.
MoloRecord(e, propagated) ==
    /\ attempts' = [attempts EXCEPT ![e] = @ + 1]
    /\ processed_count' = CountProcessed(processed_count, propagated)
    /\ error_count' = IF propagated THEN error_count + 1 ELSE error_count
    /\ skipped_count' = skipped_count
    /\ result' = [result EXCEPT ![e] = IF propagated THEN "error"
                                                     ELSE "processed"]
    /\ mi' = IF propagated THEN MoloContinue(mi, Len(archive)) ELSE mi + 1
    /\ entityFailed' = (entityFailed \/ propagated)
    /\ UNCHANGED <<pc, archive, stellarLocals, tMerge, mergeStatus, db,
                   merge_message, summary_message, exit_status>>

MoloLoopAt(e) ==
    /\ pc = "molo_loop"
    /\ mi <= Len(archive)
    /\ e = archive[mi]

\* No target CSV in the archive: the function returns before it connects.
MoloNoTargets ==
    /\ pc = "molo_start"
    /\ pc' = "stellar_loop"
    /\ UNCHANGED <<stg, moloLocals, stellarLocals, history, tMerge,
                   mergeStatus, db, report>>
    /\ UNCHANGED <<predVars, mergeVars, normVars, genVars, deployVars>>

\* OracleConnector.truncate_staging_tables issues TRUNCATE for every MOLO
\* staging table and only warns about the tables (failed) whose TRUNCATE
\* raised.
truncate_staging_tables(failed) ==
    /\ stg' = [e \in AllEntities |->
                 IF e \in MoloEntities /\ e \notin failed THEN {} ELSE stg[e]]
    /\ clearFailed' = [e \in AllEntities |-> e \in failed]
    /\ tClear' = [e \in AllEntities |->
                    IF e \in MoloEntities THEN MoloTruncateTime ELSE 0]

\* The archive holds the target CSVs of a: connect, truncate, enter the loop.
MoloTruncate ==
    /\ pc = "molo_start"
    /\ \E a \in Archives \ {<<>>} : archive' = a
    /\ \E failed \in SUBSET MoloEntities : truncate_staging_tables(failed)
    /\ db' = "open"
    /\ pc' = "molo_loop"
    /\ UNCHANGED <<mi, processed_count, skipped_count, error_count,
                   stellarLocals, attempts, result, insertIssued, rejected,
                   emptyPayload, tInsert, tMerge, mergeStatus, report>>
    /\ UNCHANGED <<predVars, mergeVars, normVars, genVars, deployVars>>

\* The commit that ends truncate_staging_tables raises (the session was
\* lost): nothing in read_s3_zip_and_insert_to_db catches it before the
\* `except Exception` that closes the function's outer try, which logs and
\* lets the function return.  The TRUNCATEs issued before it have taken
\* effect.
MoloTruncateRaises ==
    /\ pc = "molo_start"
    /\ \E failed \in SUBSET MoloEntities :
          stg' = [e \in AllEntities |->
                    IF e \in MoloEntities /\ e \notin failed THEN {}
                    ELSE stg[e]]
    /\ db' = "open"
    /\ pc' = "stellar_loop"
    /\ UNCHANGED <<moloLocals, stellarLocals, history, tMerge, mergeStatus,
                   report>>
    /\ UNCHANGED <<predVars, mergeVars, normVars, genVars, deployVars>>

\* parse_<entity>_data raises (csv.Error, a missing column in a parser that
\* has no per-row handler): the loop's except handler counts an error.
MoloParseRaises ==
    \E e \in MoloEntities :
        /\ MoloLoopAt(e)
        /\ MoloRecord(e, TRUE)
        /\ UNCHANGED <<stg, clearFailed, insertIssued, rejected,
                       emptyPayload, tClear, tInsert>>
        /\ UNCHANGED <<predVars, mergeVars, normVars, genVars, deployVars>>

\* The parser returns no row: insert_<entity> returns at `if not data_rows`.
MoloInsertEmpty ==
    \E e \in MoloEntities :
        /\ MoloLoopAt(e)
        /\ emptyPayload' = [emptyPayload EXCEPT ![e] = TRUE]
        /\ MoloRecord(e, FALSE)
        /\ UNCHANGED <<stg, clearFailed, insertIssued, rejected, tClear,
                       tInsert>>
        /\ UNCHANGED <<predVars, mergeVars, normVars, genVars, deployVars>>

\* executemany and commit succeed: the rows are appended to the table.
MoloInsertOk ==
    \E e \in MoloEntities :
        /\ MoloLoopAt(e)
        /\ stg' = [stg EXCEPT ![e] = @ \cup {"fresh"}]
        /\ insertIssued' = [insertIssued EXCEPT ![e] = TRUE]
        /\ tInsert' = [tInsert EXCEPT ![e] = MoloInsertTime(mi)]
        /\ MoloRecord(e, FALSE)
        /\ UNCHANGED <<clearFailed, rejected, emptyPayload, tClear>>
        /\ UNCHANGED <<predVars, mergeVars, normVars, genVars, deployVars>>

\* executemany raises: the handler of insert_<entity> rolls back, and
\* re-raises only in the three methods of InsertReraises.
MoloInsertRejected ==
    \E e \in MoloEntities :
        /\ MoloLoopAt(e)
        /\ insertIssued' = [insertIssued EXCEPT ![e] = TRUE]
        /\ rejected' = [rejected EXCEPT ![e] = TRUE]
        /\ tInsert' = [tInsert EXCEPT ![e] = MoloInsertTime(mi)]
        /\ MoloRecord(e, InsertPropagates(e))
        /\ UNCHANGED <<stg, clearFailed, emptyPayload, tClear>>
        /\ UNCHANGED <<predVars, mergeVars, normVars, genVars, deployVars>>

\* The lines the MOLO function can log about the merge and as its summary.
MergeCompleted == "All merge stored procedures completed successfully"
AllProcessed == "All MOLO CSV files processed successfully!"
CompletedWithErrors == "Processing completed with error(s)"

\* After the loop: run_all_merges calls SP_RUN_ALL_MOLO_STELLAR_MERGES and
\* swallows its failure; the line after the call is logged whatever
\* happened; then db.close() and the summary, which looks at error_count
\* only.
MoloMerge(ok) ==
    /\ pc = "molo_loop"
    /\ mi > Len(archive)
    /\ tMerge' = MergeTime
    /\ mergeStatus' = IF ok THEN "committed" ELSE "rolled_back"
    /\ merge_message' = MergeCompleted
    /\ summary_message' = IF error_count = 0 THEN AllProcessed
                                              ELSE CompletedWithErrors
    /\ db' = "closed"
    /\ pc' = "molo_summary"
    /\ UNCHANGED <<stg, moloLocals, stellarLocals, history, entityFailed,
                   exit_status>>
    /\ UNCHANGED <<predVars, mergeVars, normVars, genVars, deployVars>>

MoloMergeOk == MoloMerge(TRUE)

MoloMergeFails == MoloMerge(FALSE)

\* read_s3_zip_and_insert_to_db returns: its locals are gone.
MoloReturn ==
    /\ pc = "molo_summary"
    /\ pc' = "stellar_loop"
    /\ FreshMoloLocals
    /\ FreshHistory
    /\ UNCHANGED <<stg, stellarLocals, tMerge, mergeStatus, db, report>>
    /\ UNCHANGED <<predVars, mergeVars, normVars, genVars, deployVars>>

\* ---------------------------------------------------------- Stellar phase
\* The for loop over tables_to_process goes on after its except handler.
StellarContinue(i, n) == i + 1

StellarLoopAt(t) ==
    /\ pc = "stellar_loop"
    /\ si <= NumStellar
    /\ t = tables_to_process[si]

\* `else` branch of `if data_rows:` and the except handler both append the
\* table to failed_tables.
StellarFailed(t) ==
    /\ attempts' = [attempts EXCEPT ![t] = @ + 1]
    /\ failed_tables' = Append(failed_tables, t)
    /\ result' = [result EXCEPT ![t] = "failed"]
    /\ si' = StellarContinue(si, NumStellar)
    /\ entityFailed' = TRUE
    /\ UNCHANGED <<pc, moloLocals, successful_tables, total_records, tMerge,
                   mergeStatus, db, merge_message, summary_message, exit_status>>

\* download_and_parse_stellar_table returns None: no .gz file under the
\* prefix, or the download or the parser raised.
StellarDownloadFails ==
    \E t \in StellarEntities :
        /\ StellarLoopAt(t)
        /\ StellarFailed(t)
        /\ UNCHANGED <<stg, clearFailed, insertIssued, rejected,
                       emptyPayload, tClear, tInsert>>
        /\ UNCHANGED <<predVars, mergeVars, normVars, genVars, deployVars>>

\* The parser returns an empty list: `if data_rows:` is false.
StellarEmpty ==
    \E t \in StellarEntities :
        /\ StellarLoopAt(t)
        /\ emptyPayload' = [emptyPayload EXCEPT ![t] = TRUE]
        /\ StellarFailed(t)
        /\ UNCHANGED <<stg, clearFailed, insertIssued, rejected, tClear,
                       tInsert>>
        /\ UNCHANGED <<predVars, mergeVars, normVars, genVars, deployVars>>

\* TRUNCATE TABLE STG_STELLAR_<table> raises: the except handler of the loop.
StellarTruncateFails ==
    \E t \in StellarEntities :
        /\ StellarLoopAt(t)
        /\ clearFailed' = [clearFailed EXCEPT ![t] = TRUE]
        /\ tClear' = [tClear EXCEPT ![t] = StellarTruncateTime(si)]
        /\ StellarFailed(t)
        /\ UNCHANGED <<stg, insertIssued, rejected, emptyPayload, tInsert>>
        /\ UNCHANGED <<predVars, mergeVars, normVars, genVars, deployVars>>

\* TRUNCATE, then insert_func(data_rows) commits the n rows of the payload.
StellarInsertOk ==
    \E t \in StellarEntities, n \in 1..MaxRows :
        /\ StellarLoopAt(t)
        /\ stg' = [stg EXCEPT ![t] = {"fresh"}]
        /\ insertIssued' = [insertIssued EXCEPT ![t] = TRUE]
        /\ tClear' = [tClear EXCEPT ![t] = StellarTruncateTime(si)]
        /\ tInsert' = [tInsert EXCEPT ![t] = StellarInsertTime(si)]
        /\ attempts' = [attempts EXCEPT ![t] = @ + 1]
        /\ total_records' = total_records + n
        /\ successful_tables' = successful_tables + 1
        /\ result' = [result EXCEPT ![t] = "successful"]
        /\ si' = si + 1
        /\ UNCHANGED <<pc, moloLocals, failed_tables, clearFailed, rejected,
                       emptyPayload, tMerge, mergeStatus, db, report>>
        /\ UNCHANGED <<predVars, mergeVars, normVars, genVars, deployVars>>

\* TRUNCATE, then executemany raises: every Stellar insert_* rolls back and
\* re-raises, and the loop's except handler records the table as failed.
StellarInsertRejected ==
    \E t \in StellarEntities :
        /\ StellarLoopAt(t)
        /\ stg' = [stg EXCEPT ![t] = {}]
        /\ insertIssued' = [insertIssued EXCEPT ![t] = TRUE]
        /\ rejected' = [rejected EXCEPT ![t] = TRUE]
        /\ tClear' = [tClear EXCEPT ![t] = StellarTruncateTime(si)]
        /\ tInsert' = [tInsert EXCEPT ![t] = StellarInsertTime(si)]
        /\ StellarFailed(t)
        /\ UNCHANGED <<clearFailed, emptyPayload>>
        /\ UNCHANGED <<predVars, mergeVars, normVars, genVars, deployVars>>

\* The loop is over: the connection is closed and the summary is logged.
\* __main__ has no statement after the two phases: the interpreter ends
\* with status 0.
StellarFinish ==
    /\ pc = "stellar_loop"
    /\ si > NumStellar
    /\ pc' = "run_done"
    /\ exit_status' = {0}
    /\ UNCHANGED <<stg, moloLocals, stellarLocals, history, tMerge,
                   mergeStatus, db, merge_message, summary_message,
                   entityFailed>>
    /\ UNCHANGED <<predVars, mergeVars, normVars, genVars, deployVars>>

\* The pipeline is started again on the same database: what the staging
\* tables hold was left there by an earlier run.
NextRun ==
    /\ pc = "run_done"
    /\ pc' = "molo_start"
    /\ stg' = [e \in AllEntities |-> IF stg[e] = {} THEN {} ELSE {"stale"}]
    /\ FreshMoloLocals
    /\ FreshStellarLocals
    /\ FreshHistory
    /\ tMerge' = 0
    /\ mergeStatus' = "none"
    /\ db' = "none"
    /\ merge_message' = "none"
    /\ summary_message' = "none"
    /\ entityFailed' = FALSE
    /\ exit_status' = {}
    /\ UNCHANGED <<predVars, mergeVars, normVars, genVars, deployVars>>

\* =================================================== text and SQL values
\* A CSV field is a sequence of characters.  A database value is NULL, a
\* number (held in thousandths), a string, a date or a raw byte string.
NULL == [kind |-> "null", n |-> 0, s |-> <<>>]
Number(thousandths) == [kind |-> "num", n |-> thousandths, s |-> <<>>]
Integer(i) == Number(i * 1000)
String(chars) == [kind |-> "str", n |-> 0, s |-> chars]
Date(y, m, d) == [kind |-> "date", n |-> y * 10000 + m * 100 + d, s |-> <<>>]
RawBytes(hex) == [kind |-> "raw", n |-> 0, s |-> hex]

\* Python None for an optional integer is the empty set, a value v is {v}.
None == {}

DigitChars == <<"0", "1", "2", "3", "4", "5", "6", "7", "8", "9">>
Digits == {DigitChars[i] : i \in 1..Len(DigitChars)}
DigitValue(c) == (CHOOSE i \in 1..Len(DigitChars) : DigitChars[i] = c) - 1
Whitespace == {" "}

RECURSIVE lstrip(_)
lstrip(s) == IF s # <<>> /\ Head(s) \in Whitespace THEN lstrip(Tail(s)) ELSE s

RECURSIVE rstrip(_)
rstrip(s) ==
    IF s # <<>> /\ s[Len(s)] \in Whitespace
    THEN rstrip(SubSeq(s, 1, Len(s) - 1))
    ELSE s

\* str.strip()
strip(s) == rstrip(lstrip(s))

AllDigits(s) == s # <<>> /\ \A i \in 1..Len(s) : s[i] \in Digits

RECURSIVE DigitsValue(_)
DigitsValue(s) ==
    IF s = <<>> THEN 0
    ELSE DigitsValue(SubSeq(s, 1, Len(s) - 1)) * 10 + DigitValue(s[Len(s)])

Signed(s) == s # <<>> /\ Head(s) \in {"+", "-"}
Unsigned(s) == IF Signed(s) THEN Tail(s) ELSE s
Sign(s) == IF s # <<>> /\ Head(s) = "-" THEN -1 ELSE 1

\* int(str): surrounding whitespace, an optional sign, decimal digits;
\* anything else raises ValueError.
IsIntLiteral(s) == AllDigits(Unsigned(strip(s)))
IntOf(s) == Sign(strip(s)) * DigitsValue(Unsigned(strip(s)))

Contains(s, c) == \E i \in 1..Len(s) : s[i] = c
IndexOf(s, c) == CHOOSE i \in 1..Len(s) : s[i] = c /\ \A j \in 1..(i - 1) : s[j] # c

\* str.split(sep)
RECURSIVE SplitOn(_, _)
SplitOn(s, sep) ==
    IF ~Contains(s, sep) THEN <<s>>
    ELSE <<SubSeq(s, 1, IndexOf(s, sep) - 1)>>
             \o SplitOn(SubSeq(s, IndexOf(s, sep) + 1, Len(s)), sep)

\* float(str) for the literals digits '.' digits: at least one digit, one '.'
IsFloatLiteral(s) ==
    LET parts == SplitOn(Unsigned(strip(s)), ".")
    IN  \/ Len(parts) = 1 /\ AllDigits(parts[1])
        \/ /\ Len(parts) = 2
           /\ parts[1] = <<>> \/ AllDigits(parts[1])
           /\ parts[2] = <<>> \/ AllDigits(parts[2])
           /\ parts[1] # <<>> \/ parts[2] # <<>>

\* float.is_integer() and int(float) of such a literal
FloatIsInteger(s) ==
    LET parts == SplitOn(Unsigned(strip(s)), ".")
    IN  Len(parts) = 1 \/ \A i \in 1..Len(parts[2]) : parts[2][i] = "0"
FloatToInt(s) ==
    Sign(strip(s)) * DigitsValue(SplitOn(Unsigned(strip(s)), ".")[1])

\* ------------------------------------------------------------ normalizers
\* The texts the safe_* helpers read as "no value".
NullTexts == {<<>>, <<"N", "U", "L", "L">>, <<"N", "/", "A">>,
              <<"N", "O", "N", "E">>}

\* parse_int(value_str): None for an empty, blank or non-integer text.
parse_int(value_str) ==
    IF value_str = <<>> \/ strip(value_str) = <<>> THEN NULL
    ELSE IF IsIntLiteral(value_str) THEN Integer(IntOf(value_str))
    ELSE NULL

\* safe_int(value, default): the default for a "no value" text and for a text
\* that is no integer; "1.0" is read as 1.
safe_int(value, default) ==
    IF strip(value) \in NullTexts THEN default
    ELSE IF Contains(value, ".") /\ ~IsFloatLiteral(value) THEN default
    ELSE IF Contains(value, ".") /\ FloatIsInteger(value)
         THEN Integer(FloatToInt(value))
    ELSE IF IsIntLiteral(value) THEN Integer(IntOf(value))
    ELSE default

\* result[:max_length] if max_length else result
Truncate(s, max_length) ==
    IF max_length = None \/ max_length = {0} THEN s
    ELSE LET m == CHOOSE k \in max_length : TRUE
         IN  SubSeq(s, 1, IF m < Len(s) THEN m ELSE Len(s))

\* safe_string(value, max_length, allow_null)
safe_string(value, max_length, allow_null) ==
    IF strip(value) \in NullTexts
    THEN IF allow_null THEN NULL ELSE String(<<>>)
    ELSE String(Truncate(strip(value), max_length))

\* Days of month m of year y, as datetime() checks them.
DaysInMonth(y, m) ==
    IF m \in {4, 6, 9, 11} THEN 30
    ELSE IF m # 2 THEN 31
    ELSE IF (y % 4 = 0 /\ y % 100 # 0) \/ y % 400 = 0 THEN 29
    ELSE 28

\* The strptime formats of parse_date, in the order they are tried: the
\* separator and the position of year, month and day among the fields.
date_formats ==
    <<[sep |-> "-", y |-> 1, m |-> 2, d |-> 3],     \* %Y-%m-%d
      [sep |-> "/", y |-> 3, m |-> 1, d |-> 2],     \* %m/%d/%Y
      [sep |-> "/", y |-> 3, m |-> 2, d |-> 1],     \* %d/%m/%Y
      [sep |-> "/", y |-> 1, m |-> 2, d |-> 3],     \* %Y/%m/%d
      [sep |-> "-", y |-> 3, m |-> 1, d |-> 2]>>    \* %m-%d-%Y

\* datetime.strptime(date_str, fmt) succeeds: %Y is four digits, %m and %d
\* one or two, and the three numbers are a calendar date.
StrptimeMatches(date_str, fmt) ==
    LET f == SplitOn(date_str, fmt.sep)
    IN  /\ Len(f) = 3
        /\ \A i \in 1..3 : AllDigits(f[i])
        /\ Len(f[fmt.y]) = 4
        /\ Len(f[fmt.m]) <= 2
        /\ Len(f[fmt.d]) <= 2
        /\ DigitsValue(f[fmt.y]) >= 1
        /\ DigitsValue(f[fmt.m]) \in 1..12
        /\ DigitsValue(f[fmt.d]) \in
               1..DaysInMonth(DigitsValue(f[fmt.y]), DigitsValue(f[fmt.m]))

Strptime(date_str, fmt) ==
    LET f == SplitOn(date_str, fmt.sep)
    IN  Date(DigitsValue(f[fmt.y]), DigitsValue(f[fmt.m]),
             DigitsValue(f[fmt.d]))

\* parse_date(date_str): the first format that matches, None if none does.
parse_date(date_str) ==
    IF date_str = <<>> THEN NULL
    ELSE IF \E k \in 1..Len(date_formats) :
                StrptimeMatches(date_str, date_formats[k])
    THEN Strptime(date_str,
                  date_formats[CHOOSE k \in 1..Len(date_formats) :
                      /\ StrptimeMatches(date_str, date_formats[k])
                      /\ \A j \in 1..(k - 1) :
                             ~StrptimeMatches(date_str, date_formats[j])])
    ELSE NULL

\* Oracle stores the empty string as NULL.
BindValue(v) == IF v = String(<<>>) THEN NULL ELSE v

\* The value a loader stages for a CSV field, by the helper it applies.
Normalize(parser, field) ==
    CASE parser = "parse_int" -> BindValue(parse_int(field))
      [] parser = "safe_int" -> BindValue(safe_int(field, Integer(0)))
      [] parser = "safe_string" -> BindValue(safe_string(field, None, TRUE))
      [] parser = "parse_date" -> BindValue(parse_date(field))

\* ------------------------------------------------------- change predicate
MaxCols == 2

\* Oracle type names for which data_type.startswith('TIMESTAMP') is true.
TimestampTypes ==
    {"TIMESTAMP(6)", "TIMESTAMP(6) WITH TIME ZONE",
     "TIMESTAMP(6) WITH LOCAL TIME ZONE"}

\* A mapping that looks at the type name only and treats every NUMBER as an
\* integer.
get_nvl_default_value_ignoring_scale(data_type, data_precision, data_scale) ==
    IF data_type \in {"VARCHAR2", "CHAR", "NVARCHAR2", "NCHAR", "CLOB",
                      "NCLOB"}
    THEN "'~NULL~'"
    ELSE IF data_type \in {"NUMBER", "INTEGER", "INT", "SMALLINT"}
    THEN "-999"
    ELSE IF data_type \in {"FLOAT", "DOUBLE PRECISION", "REAL",
                           "BINARY_FLOAT", "BINARY_DOUBLE"}
    THEN "-999.999"
    ELSE IF data_type = "DATE"
    THEN "TO_DATE('1900-01-01','YYYY-MM-DD')"
    ELSE IF data_type \in TimestampTypes
    THEN "TO_TIMESTAMP('1900-01-01 00:00:00','YYYY-MM-DD HH24:MI:SS')"
    ELSE IF data_type \in {"BLOB", "RAW", "LONG RAW"}
    THEN "HEXTORAW('00')"
    ELSE "'~NULL~'"

\* get_nvl_default_value(data_type, data_precision, data_scale): the SQL text
\* of the literal that stands for NULL in a comparison.
get_nvl_default_value(data_type, data_precision, data_scale) ==
    IF data_type \in {"VARCHAR2", "CHAR", "NVARCHAR2", "NCHAR", "CLOB",
                      "NCLOB"}
    THEN "'~NULL~'"
    ELSE IF data_type = "NUMBER"
    THEN IF \E scale \in data_scale : scale > 0 THEN "-999.999" ELSE "-999"
    ELSE IF data_type \in {"INTEGER", "INT", "SMALLINT"}
    THEN "-999"
    ELSE IF data_type \in {"FLOAT", "DOUBLE PRECISION", "REAL",
                           "BINARY_FLOAT", "BINARY_DOUBLE"}
    THEN "-999.999"
    ELSE IF data_type = "DATE"
    THEN "TO_DATE('1900-01-01','YYYY-MM-DD')"
    ELSE IF data_type \in TimestampTypes
    THEN "TO_TIMESTAMP('1900-01-01 00:00:00','YYYY-MM-DD HH24:MI:SS')"
    ELSE IF data_type \in {"BLOB", "RAW", "LONG RAW"}
    THEN "HEXTORAW('00')"
    ELSE "'~NULL~'"

\* A condition that compares with = instead of <>.
EqualityCondition(col_name, nvl_default) ==
    [col |-> col_name, op |-> "=", tgt_default |-> nvl_default,
     src_default |-> nvl_default]

\* f"NVL(tgt.{col_name}, {nvl_default}) <> NVL(src.{col_name}, {nvl_default})"
Condition(col_name, nvl_default) ==
    [col |-> col_name, op |-> "<>", tgt_default |-> nvl_default,
     src_default |-> nvl_default]

\* A generator whose conditions substitute different literals for NULL on
\* the two sides.
generate_mismatched_where_clause(cols) ==
    [i \in 1..Len(cols) |->
        [col |-> i, op |-> "<>",
         tgt_default |-> get_nvl_default_value(cols[i].data_type,
                                               cols[i].data_precision,
                                               cols[i].data_scale),
         src_default |-> "'~'"]]

\* generate_where_clause(columns_info): one condition per column, joined
\* with OR inside WHERE ( ... ).
generate_where_clause(cols) ==
    [i \in 1..Len(cols) |->
        Condition(i, get_nvl_default_value(cols[i].data_type,
                                           cols[i].data_precision,
                                           cols[i].data_scale))]

\* What Oracle makes of the literals above.
SqlLiteral(text) ==
    CASE text = "'~NULL~'" -> String(<<"~", "N", "U", "L", "L", "~">>)
      [] text = "'~'" -> String(<<"~">>)
      [] text = "-999" -> Integer(-999)
      [] text = "-999.999" -> Number(-999999)
      [] text = "TO_DATE('1900-01-01','YYYY-MM-DD')" -> Date(1900, 1, 1)
      [] text = "TO_TIMESTAMP('1900-01-01 00:00:00','YYYY-MM-DD HH24:MI:SS')"
             -> Date(1900, 1, 1)
      [] text = "HEXTORAW('00')" -> RawBytes(<<"0", "0">>)

\* NVL(expr, substitute)
NVL(v, substitute) == IF v = NULL THEN substitute ELSE v

\* SQL comparison: unknown as soon as one operand is NULL.
SqlCompare(op, a, b) ==
    IF a = NULL \/ b = NULL THEN "UNKNOWN"
    ELSE IF op = "<>" THEN (IF a # b THEN "TRUE" ELSE "FALSE")
    ELSE (IF a = b THEN "TRUE" ELSE "FALSE")

EvalCondition(c, t, s) ==
    SqlCompare(c.op, NVL(t[c.col], SqlLiteral(c.tgt_default)),
                     NVL(s[c.col], SqlLiteral(c.src_default)))

\* SQL OR over the conditions of a WHERE clause.
EvalWhere(clause, t, s) ==
    IF \E i \in 1..Len(clause) : EvalCondition(clause[i], t, s) = "TRUE"
    THEN "TRUE"
    ELSE IF \E i \in 1..Len(clause) :
                EvalCondition(clause[i], t, s) = "UNKNOWN"
    THEN "UNKNOWN"
    ELSE "FALSE"

\* Columns as USER_TAB_COLUMNS describes them, each with the helper the
\* loader applies to its CSV field.
ColumnShapes ==
    {[data_type |-> "NUMBER", data_precision |-> None, data_scale |-> None,
      parser |-> "parse_int"],
     [data_type |-> "NUMBER", data_precision |-> {10}, data_scale |-> {0},
      parser |-> "safe_int"],
     [data_type |-> "VARCHAR2", data_precision |-> None, data_scale |-> None,
      parser |-> "safe_string"],
     [data_type |-> "DATE", data_precision |-> None, data_scale |-> None,
      parser |-> "parse_date"]}

\* CSV fields the model feeds to each helper.
FieldsFor(parser) ==
    CASE parser = "parse_int" ->
            {<<>>, <<"5">>, <<"-", "9", "9", "9">>}
      [] parser = "safe_int" ->
            {<<"7">>, <<"-", "9", "9", "9">>,
             <<"-", "9", "9", "9", ".", "0">>}
      [] parser = "safe_string" ->
            {<<" ">>, <<"A">>, <<"~", "N", "U", "L", "L", "~">>}
      [] parser = "parse_date" ->
            {<<"n", "/", "a">>,
             <<"1", "9", "0", "0", "-", "0", "1", "-", "0", "1">>,
             <<"0", "1", "/", "0", "1", "/", "1", "9", "0", "0">>}

RowsFor(cols) ==
    {r \in [1..Len(cols) -> UNION {FieldsFor(c.parser) : c \in ColumnShapes}] :
        \A i \in 1..Len(cols) : r[i] \in FieldsFor(cols[i].parser)}

PredInit ==
    /\ ppc = "drawn"
    /\ columns_info \in UNION {[1..n -> ColumnShapes] : n \in 1..MaxCols}
    /\ rawTgt \in RowsFor(columns_info)
    /\ rawSrc \in RowsFor(columns_info)
    /\ tgt = <<>>
    /\ src = <<>>
    /\ where_clause = <<>>
    /\ predicate = "none"

\* The loader normalizes the CSV fields of both rows.
PredStage ==
    /\ ppc = "drawn"
    /\ tgt' = [i \in 1..Len(columns_info) |->
                 Normalize(columns_info[i].parser, rawTgt[i])]
    /\ src' = [i \in 1..Len(columns_info) |->
                 Normalize(columns_info[i].parser, rawSrc[i])]
    /\ ppc' = "staged"
    /\ UNCHANGED <<columns_info, rawTgt, rawSrc, where_clause, predicate>>
    /\ UNCHANGED <<pipeVars, mergeVars, normVars, genVars, deployVars>>

\* generate_merge_where_clause builds the WHERE clause of the table.
PredGenerate ==
    /\ ppc = "staged"
    /\ where_clause' = generate_where_clause(columns_info)
    /\ ppc' = "generated"
    /\ UNCHANGED <<columns_info, rawTgt, rawSrc, tgt, src, predicate>>
    /\ UNCHANGED <<pipeVars, mergeVars, normVars, genVars, deployVars>>

\* The MERGE evaluates the clause on the matched pair of rows.
PredEvaluate ==
    /\ ppc = "generated"
    /\ predicate' = EvalWhere(where_clause, tgt, src)
    /\ ppc' = "evaluated"
    /\ UNCHANGED <<columns_info, rawTgt, rawSrc, tgt, src, where_clause>>
    /\ UNCHANGED <<pipeVars, mergeVars, normVars, genVars, deployVars>>

PredIdle ==
    /\ ppc = "idle"
    /\ columns_info = <<>>
    /\ rawTgt = <<>>
    /\ rawSrc = <<>>
    /\ tgt = <<>>
    /\ src = <<>>
    /\ where_clause = <<>>
    /\ predicate = "none"

\* ------------------------------------------- clear -> stage -> reconcile
MaxKeys == 2
MaxCycles == 2

\* The warehouse table of the entity: its key column and one data column.
merge_columns_info ==
    <<[data_type |-> "NUMBER", data_precision |-> None, data_scale |-> None,
       parser |-> "parse_int"],
      [data_type |-> "NUMBER", data_precision |-> None, data_scale |-> None,
       parser |-> "parse_int"]>>

\* A CSV export of the entity: at most one row per key.
CsvRows ==
    [key : {<<DigitChars[k + 1]>> : k \in 1..MaxKeys},
     field : FieldsFor(merge_columns_info[2].parser)]
Payloads ==
    {p \in SUBSET CsvRows : \A a, b \in p : a.key = b.key => a = b}

\* The tuple the parser builds for one CSV row.
StagedRow(r) ==
    <<Normalize(merge_columns_info[1].parser, r.key),
      Normalize(merge_columns_info[2].parser, r.field)>>

\* The procedure file before any WHERE clause is generated: WHEN MATCHED THEN
\* UPDATE SET ..., tgt.DW_LAST_UPDATED = SYSTIMESTAMP WHEN NOT MATCHED ...
BaseProcedure == [has_where |-> FALSE, where |-> <<>>]

\* A deployment step that writes nothing.
leave_procedure_unchanged(p, clause) == p

\* update_stored_procedure(proc_file_path, where_clause): the pattern matches
\* "DW_LAST_UPDATED = SYSTIMESTAMP", an optional WHERE ( ... ) without any ")"
\* inside, then "WHEN NOT MATCHED".  A WHERE clause made of NVL( ... )
\* conditions has a ")" inside: the pattern does not match it and the file is
\* left as it is.
update_stored_procedure(p, clause) ==
    IF ~p.has_where THEN [has_where |-> TRUE, where |-> clause]
    ELSE IF Len(p.where) > 0 THEN p
    ELSE [has_where |-> TRUE, where |-> clause]

\* MERGE INTO dw tgt USING stg src ON (tgt.ID = src.ID)
Matches(t, s) == SqlCompare("=", t.vals[1], s[1]) = "TRUE"

\* WHEN MATCHED THEN UPDATE SET ... [WHERE ...]: the row is updated unless the
\* procedure has a WHERE clause that is not true for the pair.
MergeUpdates(p, t, s) ==
    Matches(t, s) /\ (p.has_where => EvalWhere(p.where, t.vals, s) = "TRUE")

UpdatedRow(t, s, now) ==
    [vals |-> s, DW_LAST_INSERTED |-> t.DW_LAST_INSERTED,
     DW_LAST_UPDATED |-> now]

InsertedRow(s, now) ==
    [vals |-> s, DW_LAST_INSERTED |-> now, DW_LAST_UPDATED |-> now]

\* The warehouse table after the MERGE of stage into table at time now.
Merge(p, table, stage, now) ==
    {IF \E s \in stage : MergeUpdates(p, t, s)
     THEN UpdatedRow(t, CHOOSE s \in stage : MergeUpdates(p, t, s), now)
     ELSE t : t \in table}
    \cup {InsertedRow(s, now) :
             s \in {x \in stage : \A t \in table : ~Matches(t, x)}}

RowsUpdated(p, table, stage) ==
    Cardinality({t \in table : \E s \in stage : MergeUpdates(p, t, s)})

MergeInit ==
    /\ mpc = "deploy"
    /\ proc = BaseProcedure
    /\ payload = {}
    /\ staging = {}
    /\ dw = {}
    /\ systimestamp = 0
    /\ cycle = 0
    /\ prev_payload = {}
    /\ dw_before = {}
    /\ rows_updated = 0
    /\ merge_result = "none"

\* generate_where_clause.py <table> <procedure file>: the WHERE clause is
\* generated from the table's columns and written into the procedure.
MergeDeploy ==
    /\ mpc = "deploy"
    /\ proc' = update_stored_procedure(
                   proc, generate_where_clause(merge_columns_info))
    /\ mpc' = "clear"
    /\ UNCHANGED <<payload, staging, dw, systimestamp, cycle, prev_payload,
                   dw_before, rows_updated, merge_result>>
    /\ UNCHANGED <<pipeVars, predVars, normVars, genVars, deployVars>>

\* A run receives the entity's export and truncates its staging table.
MergeClear ==
    /\ mpc = "clear"
    /\ cycle < MaxCycles
    /\ payload' \in Payloads
    /\ prev_payload' = payload
    /\ staging' = {}
    /\ mpc' = "stage"
    /\ UNCHANGED <<proc, dw, systimestamp, cycle, dw_before, rows_updated, merge_result>>
    /\ UNCHANGED <<pipeVars, predVars, normVars, genVars, deployVars>>

\* The parsed rows are bulk-inserted into the staging table.
MergeStage ==
    /\ mpc = "stage"
    /\ staging' = {StagedRow(r) : r \in payload}
    /\ mpc' = "reconcile"
    /\ UNCHANGED <<proc, payload, dw, systimestamp, cycle, prev_payload,
                   dw_before, rows_updated, merge_result>>
    /\ UNCHANGED <<pipeVars, predVars, normVars, genVars, deployVars>>

\* An except handler that commits what the failed procedure had changed.
commit_failed_merge(committed, working, failed) ==
    [dw |-> working,
     result |-> IF failed THEN "rolled_back" ELSE "committed"]

\* OracleConnector.run_all_merges: execute the procedure and commit; when it
\* raises, warn, roll back and return ("Don't raise").  committed is the
\* warehouse table as last committed, working what the session had made of it
\* when the procedure returned or raised.
run_all_merges(committed, working, failed) ==
    [dw |-> IF failed THEN committed ELSE working,
     result |-> IF failed THEN "rolled_back" ELSE "committed"]

\* The merge procedure runs and commits.
MergeReconcile ==
    /\ mpc = "reconcile"
    /\ systimestamp' = systimestamp + 1
    /\ dw_before' = dw
    /\ LET done == run_all_merges(
                       dw, Merge(proc, dw, staging, systimestamp'), FALSE)
       IN  dw' = done.dw /\ merge_result' = done.result
    /\ rows_updated' = RowsUpdated(proc, dw, staging)
    /\ cycle' = cycle + 1
    /\ mpc' = "clear"
    /\ UNCHANGED <<proc, payload, staging, prev_payload>>
    /\ UNCHANGED <<pipeVars, predVars, normVars, genVars, deployVars>>

\* The merge procedure raises after it merged only the rows of applied; the
\* run goes on to close the connection and ends.
MergeReconcileFails ==
    /\ mpc = "reconcile"
    /\ systimestamp' = systimestamp + 1
    /\ dw_before' = dw
    /\ \E applied \in SUBSET staging :
          LET done == run_all_merges(
                          dw, Merge(proc, dw, applied, systimestamp'), TRUE)
          IN  dw' = done.dw /\ merge_result' = done.result
    /\ rows_updated' = 0
    /\ mpc' = "merge_failed"
    /\ UNCHANGED <<proc, payload, staging, cycle, prev_payload>>
    /\ UNCHANGED <<pipeVars, predVars, normVars, genVars, deployVars>>

\* ===================================================== field normalizers
\* ------------------------------------------------------------------ bounds
MaxCsvRows == 3
\* The max_length a string field is declared with (10 .. 1000 in the source).
MaxLength == 3

\* A field as csv.DictReader hands it to the parser: None (a row shorter than
\* the header) or {text}.
Text(cell) == CHOOSE t \in cell : TRUE

LowerCase == <<"a", "b", "c", "d", "e", "f", "g", "h", "i", "j", "k", "l", "m", "n", "o", "p", "q", "r", "s", "t", "u", "v", "w", "x", "y", "z">>
UpperCase == <<"A", "B", "C", "D", "E", "F", "G", "H", "I", "J", "K", "L", "M", "N", "O", "P", "Q", "R", "S", "T", "U", "V", "W", "X", "Y", "Z">>
UpperChar(c) ==
    IF \E i \in 1..Len(LowerCase) : LowerCase[i] = c
    THEN UpperCase[CHOOSE i \in 1..Len(LowerCase) : LowerCase[i] = c]
    ELSE c

\* str.upper()
upper(s) == [i \in 1..Len(s) |-> UpperChar(s[i])]

\* float(str) of a literal digits '.' digits, in thousandths.
FloatOf(s) ==
    LET parts == SplitOn(Unsigned(strip(s)), ".")
        frac == IF Len(parts) = 2
                THEN SubSeq(parts[2] \o <<"0", "0", "0">>, 1, 3)
                ELSE <<"0", "0", "0">>
    IN  Sign(strip(s)) * (DigitsValue(parts[1]) * 1000 + DigitsValue(frac))

\* What one call did: the value returned, whether a warning was logged,
\* whether an exception left the expression.
Returns(v) == [raised |-> FALSE, value |-> v, logged |-> FALSE]
Warns(v) == [raised |-> FALSE, value |-> v, logged |-> TRUE]
Raises == [raised |-> TRUE, value |-> NULL, logged |-> FALSE]

\* download_csv_from_s3.parse_int on a field of the row.
module_parse_int(cell) ==
    IF cell = None \/ strip(Text(cell)) = <<>> THEN Returns(NULL)
    ELSE IF IsIntLiteral(Text(cell)) THEN Returns(parse_int(Text(cell)))
    ELSE Warns(parse_int(Text(cell)))

\* download_csv_from_s3.parse_float: 0.0 for no value and for a text that is
\* no float.
parse_float(cell) ==
    IF cell = None \/ Text(cell) = <<>> THEN Returns(Number(0))
    ELSE IF IsFloatLiteral(Text(cell))
         THEN Returns(Number(FloatOf(Text(cell))))
    ELSE Warns(Number(0))

TrueTexts == {<<"T", "R", "U", "E">>, <<"T">>, <<"1">>, <<"Y", "E", "S">>, <<"Y">>}
FalseTexts == {<<"F", "A", "L", "S", "E">>, <<"F">>, <<"0">>, <<"N", "O">>, <<"N">>}

\* download_csv_from_s3.parse_boolean
parse_boolean(cell) ==
    IF cell = None \/ strip(Text(cell)) = <<>> THEN Returns(NULL)
    ELSE IF upper(strip(Text(cell))) \in TrueTexts THEN Returns(Integer(1))
    ELSE IF upper(strip(Text(cell))) \in FalseTexts THEN Returns(Integer(0))
    ELSE Warns(NULL)

\* parse_contacts_data.safe_int, parse_invoices_data.safe_int
nested_safe_int(cell, default) ==
    IF cell = None THEN Returns(default)
    ELSE Returns(safe_int(Text(cell), default))

\* parse_contacts_data.safe_bool_as_int: neither "T" nor "F" is listed.
safe_bool_as_int(cell, default) ==
    IF cell = None \/ strip(Text(cell)) \in NullTexts THEN Returns(default)
    ELSE IF upper(strip(Text(cell))) \in TrueTexts \ {<<"T">>}
         THEN Returns(Integer(1))
    ELSE IF upper(strip(Text(cell))) \in FalseTexts \ {<<"F">>}
         THEN Returns(Integer(0))
    ELSE Returns(default)

\* parse_transactions_data.safe_int: int(float(value)) cuts the fraction.
transactions_safe_int(cell, default) ==
    IF cell = None \/ Text(cell) = <<>>
          \/ upper(strip(Text(cell))) \in NullTexts
    THEN Returns(default)
    ELSE IF IsFloatLiteral(Text(cell))
         THEN Returns(Integer(FloatToInt(Text(cell))))
    ELSE Returns(default)

\* parse_transactions_data.safe_bool_as_int: a text outside both lists goes
\* through int(float(value)).
transactions_safe_bool_as_int(cell, default) ==
    IF cell = None \/ Text(cell) = <<>>
          \/ upper(strip(Text(cell))) \in NullTexts
    THEN Returns(default)
    ELSE IF upper(strip(Text(cell))) \in TrueTexts \ {<<"T">>}
         THEN Returns(Integer(1))
    ELSE IF upper(strip(Text(cell))) \in FalseTexts \ {<<"F">>}
         THEN Returns(Integer(0))
    ELSE IF IsFloatLiteral(Text(cell))
         THEN Returns(Integer(FloatToInt(Text(cell))))
    ELSE Returns(default)

\* download_stellar_from_s3.parse_int
stellar_parse_int(cell) ==
    IF cell = None \/ Text(cell) = <<>> THEN Returns(NULL)
    ELSE IF IsIntLiteral(Text(cell)) THEN Returns(Integer(IntOf(Text(cell))))
    ELSE Returns(NULL)

\* parse_marina_locations_data.safe_string
nested_safe_string(cell, max_length, allow_null) ==
    IF cell = None
    THEN Returns(IF allow_null THEN NULL ELSE String(<<>>))
    ELSE Returns(safe_string(Text(cell), max_length, allow_null))

\* parse_transactions_data.safe_string: no text is read as "no value" but
\* the empty one.
transactions_safe_string(cell, max_length) ==
    IF cell = None \/ Text(cell) = <<>> THEN Returns(NULL)
    ELSE LET cut == Truncate(strip(Text(cell)), max_length)
         IN  Returns(IF cut = <<>> THEN NULL ELSE String(cut))

\* parse_equipment_data: int(row.get('YearBuilt', 0)) if row.get('YearBuilt')
\* else None
equipment_year_built(cell) ==
    IF cell = None \/ Text(cell) = <<>> THEN Returns(NULL)
    ELSE IF IsIntLiteral(Text(cell)) THEN Returns(Integer(IntOf(Text(cell))))
    ELSE Raises

\* parse_equipment_data: row.get('Name', '').strip()[:100]
equipment_name(cell) ==
    IF cell = None THEN Raises
    ELSE Returns(String(Truncate(strip(Text(cell)), {MaxLength})))

\* parse_insurance_data: float(row.get('LiabilityMaximum'))
\* if row.get('LiabilityMaximum', '').strip() else None
insurance_liability_maximum(cell) ==
    IF cell = None THEN Raises
    ELSE IF strip(Text(cell)) = <<>> THEN Returns(NULL)
    ELSE IF IsFloatLiteral(Text(cell))
         THEN Returns(Number(FloatOf(Text(cell))))
    ELSE Raises

\* --------------------------------------------------------- date parsers
\* A strptime format with an optional time part after one blank.
Timed(date_format, time) == [date |-> date_format, time |-> time]

\* date_formats of parse_contacts_data.safe_date, in the order of the list
safe_date_formats ==
    <<Timed(date_formats[2], "HMS"),     \* %m/%d/%Y %H:%M:%S
      Timed(date_formats[2], "none"),    \* %m/%d/%Y
      Timed(date_formats[1], "none"),    \* %Y-%m-%d
      Timed(date_formats[3], "none"),    \* %d/%m/%Y
      Timed(date_formats[4], "none"),    \* %Y/%m/%d
      Timed(date_formats[5], "none")>>   \* %m-%d-%Y

\* date_formats of parse_contacts_data.safe_datetime
safe_datetime_formats ==
    <<Timed(date_formats[1], "HMS"),     \* %Y-%m-%d %H:%M:%S
      Timed(date_formats[2], "HMS"),     \* %m/%d/%Y %H:%M:%S
      Timed(date_formats[2], "none"),    \* %m/%d/%Y
      Timed(date_formats[1], "none"),    \* %Y-%m-%d
      Timed(date_formats[3], "none"),    \* %d/%m/%Y
      Timed(date_formats[4], "none"),    \* %Y/%m/%d
      Timed(date_formats[5], "none")>>   \* %m-%d-%Y

\* datetime_formats of parse_datetime
datetime_formats ==
    <<Timed(date_formats[2], "HMS"),     \* %m/%d/%Y %H:%M:%S
      Timed(date_formats[1], "HMS"),     \* %Y-%m-%d %H:%M:%S
      Timed(date_formats[2], "HM"),      \* %m/%d/%Y %H:%M
      Timed(date_formats[1], "HM")>>     \* %Y-%m-%d %H:%M

\* %H:%M:%S or %H:%M matches the text.
TimeMatches(t, time) ==
    LET f == SplitOn(t, ":")
    IN  /\ Len(f) = (IF time = "HMS" THEN 3 ELSE 2)
        /\ \A i \in 1..Len(f) : AllDigits(f[i]) /\ Len(f[i]) <= 2
        /\ DigitsValue(f[1]) <= 23
        /\ DigitsValue(f[2]) <= 59
        /\ time = "HMS" => DigitsValue(f[3]) <= 61

\* datetime.strptime(date_str, fmt) succeeds.
TimedMatches(date_str, fmt) ==
    LET p == SplitOn(date_str, " ")
    IN  IF fmt.time = "none"
        THEN Len(p) = 1 /\ StrptimeMatches(p[1], fmt.date)
        ELSE /\ Len(p) = 2
             /\ StrptimeMatches(p[1], fmt.date)
             /\ TimeMatches(p[2], fmt.time)

Pad2(digits) == IF Len(digits) = 1 THEN <<"0">> \o digits ELSE digits
Midnight == <<"0", "0", ":", "0", "0", ":", "0", "0">>

\* The datetime strptime returns: its date, and its time of day as text.
Timestamp(date_str, fmt) ==
    LET p == SplitOn(date_str, " ")
        f == IF fmt.time = "none" THEN <<>> ELSE SplitOn(p[2], ":")
    IN  [kind |-> "timestamp",
         n |-> Strptime(p[1], fmt.date).n,
         s |-> IF fmt.time = "none" THEN Midnight
               ELSE Pad2(f[1]) \o <<":">> \o Pad2(f[2]) \o <<":">>
                        \o (IF fmt.time = "HMS" THEN Pad2(f[3])
                                                ELSE <<"0", "0">>)]

\* datetime.date()
DateOf(timestamp) == [kind |-> "date", n |-> timestamp.n, s |-> <<>>]

\* A loop that keeps trying after a format parsed and returns the last match.
LastMatch(date_str, formats) ==
    IF \E k \in 1..Len(formats) : TimedMatches(date_str, formats[k])
    THEN CHOOSE k \in 1..Len(formats) :
             /\ TimedMatches(date_str, formats[k])
             /\ \A j \in (k + 1)..Len(formats) :
                    ~TimedMatches(date_str, formats[j])
    ELSE 0

\* `for fmt in formats: try: return strptime(...) except ValueError: continue`:
\* the position of the first format that parses, 0 when none does.
FirstMatch(date_str, formats) ==
    IF \E k \in 1..Len(formats) : TimedMatches(date_str, formats[k])
    THEN CHOOSE k \in 1..Len(formats) :
             /\ TimedMatches(date_str, formats[k])
             /\ \A j \in 1..(k - 1) : ~TimedMatches(date_str, formats[j])
    ELSE 0

\* A parser that lets the ValueError of its last format leave the function.
parse_datetime_or_raise(cell) ==
    IF cell = None \/ Text(cell) = <<>> THEN Returns(NULL)
    ELSE IF FirstMatch(Text(cell), datetime_formats) = 0 THEN Raises
    ELSE Returns(Timestamp(Text(cell),
             datetime_formats[FirstMatch(Text(cell), datetime_formats)]))

\* download_csv_from_s3.parse_datetime
parse_datetime(cell) ==
    IF cell = None \/ Text(cell) = <<>> THEN Returns(NULL)
    ELSE IF FirstMatch(Text(cell), datetime_formats) = 0 THEN Warns(NULL)
    ELSE Returns(Timestamp(Text(cell),
             datetime_formats[FirstMatch(Text(cell), datetime_formats)]))

\* parse_reservations_data: parse_datetime(row.get('CreationTime', '').strip())
reservations_creation_time(cell) ==
    IF cell = None THEN Raises ELSE parse_datetime({strip(Text(cell))})

\* download_csv_from_s3.parse_date, whose formats carry no time part
module_parse_date(cell) ==
    IF cell = None \/ Text(cell) = <<>> THEN Returns(NULL)
    ELSE IF parse_date(Text(cell)) = NULL THEN Warns(NULL)
    ELSE Returns(parse_date(Text(cell)))

\* parse_contacts_data.safe_datetime
safe_datetime(cell) ==
    IF cell = None \/ strip(Text(cell)) \in NullTexts THEN Returns(NULL)
    ELSE IF FirstMatch(strip(Text(cell)), safe_datetime_formats) = 0
         THEN Warns(NULL)
    ELSE Returns(Timestamp(strip(Text(cell)),
             safe_datetime_formats[FirstMatch(strip(Text(cell)),
                                              safe_datetime_formats)]))

\* parse_contacts_data.safe_date
safe_date(cell) ==
    IF cell = None \/ strip(Text(cell)) \in NullTexts THEN Returns(NULL)
    ELSE IF FirstMatch(strip(Text(cell)), safe_date_formats) = 0
         THEN Warns(NULL)
    ELSE Returns(DateOf(Timestamp(strip(Text(cell)),
             safe_date_formats[FirstMatch(strip(Text(cell)),
                                          safe_date_formats)])))

DateNormalizers ==
    {"parse_date", "parse_contacts_data.safe_date",
     "parse_contacts_data.safe_datetime",
     "parse_reservations_data.CreationTime"}
IntegerNormalizers ==
    {"parse_int", "parse_contacts_data.safe_int",
     "parse_invoices_data.safe_int", "parse_transactions_data.safe_int",
     "stellar.parse_int"}
FloatNormalizers == {"parse_float"}
BooleanNormalizers ==
    {"parse_boolean", "parse_contacts_data.safe_bool_as_int",
     "parse_transactions_data.safe_bool_as_int"}
StringNormalizers ==
    {"parse_marina_locations_data.safe_string",
     "parse_transactions_data.safe_string"}
\* Fields converted by an expression written in the record tuple itself.
InlineExpressions ==
    {"parse_equipment_data.YearBuilt", "parse_equipment_data.Name",
     "parse_insurance_data.LiabilityMaximum"}
Normalizers ==
    IntegerNormalizers \cup FloatNormalizers \cup BooleanNormalizers
        \cup StringNormalizers \cup InlineExpressions \cup DateNormalizers

\* The call as the parsers write it, with the arguments they pass.
Apply(n, cell) ==
    CASE n = "parse_int" -> module_parse_int(cell)
      [] n = "parse_contacts_data.safe_int" ->
            nested_safe_int(cell, Integer(0))
      [] n = "parse_invoices_data.safe_int" ->
            nested_safe_int(cell, Integer(0))
      [] n = "parse_transactions_data.safe_int" ->
            transactions_safe_int(cell, NULL)
      [] n = "stellar.parse_int" -> stellar_parse_int(cell)
      [] n = "parse_float" -> parse_float(cell)
      [] n = "parse_boolean" -> parse_boolean(cell)
      [] n = "parse_contacts_data.safe_bool_as_int" ->
            safe_bool_as_int(cell, Integer(0))
      [] n = "parse_transactions_data.safe_bool_as_int" ->
            transactions_safe_bool_as_int(cell, Integer(0))
      [] n = "parse_marina_locations_data.safe_string" ->
            nested_safe_string(cell, {MaxLength}, TRUE)
      [] n = "parse_transactions_data.safe_string" ->
            transactions_safe_string(cell, {MaxLength})
      [] n = "parse_equipment_data.YearBuilt" -> equipment_year_built(cell)
      [] n = "parse_equipment_data.Name" -> equipment_name(cell)
      [] n = "parse_insurance_data.LiabilityMaximum" ->
            insurance_liability_maximum(cell)
      [] n = "parse_date" -> module_parse_date(cell)
      [] n = "parse_contacts_data.safe_date" -> safe_date(cell)
      [] n = "parse_contacts_data.safe_datetime" -> safe_datetime(cell)
      [] n = "parse_reservations_data.CreationTime" ->
            reservations_creation_time(cell)

\* The field texts the model feeds to the normalizers, by kind of field.
NumericTexts ==
    {<<>>, <<"0">>, <<"1", ".", "0">>, <<"5", ".", "5">>,
     <<"1", "9", "x", "5">>}
BooleanTexts ==
    {<<>>, <<"0">>, <<"2">>, <<"T">>, <<"t", "r", "u", "e">>}
StringTexts ==
    {<<>>, <<" ", "a", "b", " ">>, <<"N", "U", "L", "L">>,
     <<"n", "u", "l", "l">>, <<"a", "b", "c", "d", "e", "f", "g">>}
DateTexts ==
    {<<"0", "3", "/", "0", "4", "/", "2", "0", "2", "4">>,
     <<"1", "3", "/", "0", "4", "/", "2", "0", "2", "4">>,
     <<"2", "0", "2", "4", "-", "0", "3", "-", "0", "4", " ", "1", "0", ":", "3", "0", ":", "0", "0">>,
     <<"0", "4", "/", "0", "3", "/", "2", "0", "2", "4", " ", "9", ":", "0", "5", ":", "0", "0">>,
     <<"2", "0", "2", "4", "-", "1", "3", "-", "4", "5">>}
FieldTexts(n) ==
    IF n \in DateNormalizers THEN DateTexts
    ELSE IF n \in BooleanNormalizers THEN BooleanTexts
    ELSE IF n \in StringNormalizers \cup {"parse_equipment_data.Name"}
         THEN StringTexts
    ELSE NumericTexts
Cells(n) == {None} \cup {{t} : t \in FieldTexts(n)}

NormInit ==
    /\ npc = "parsing"
    /\ normalizer \in Normalizers
    /\ cells \in UNION {[1..n -> Cells(normalizer)] : n \in 1..MaxCsvRows}
    /\ ri = 1
    /\ outcomes = <<>>
    /\ records = <<>>
    /\ staged_rows = <<>>

NormRowAt(i) ==
    /\ npc = "parsing"
    /\ ri <= Len(cells)
    /\ i = ri

\* The tuple is built: records.append(...)
NormRowKept ==
    \E i \in 1..Len(cells) :
        /\ NormRowAt(i)
        /\ ~Apply(normalizer, cells[i]).raised
        /\ outcomes' = Append(outcomes, Apply(normalizer, cells[i]))
        /\ records' = Append(records, outcomes'[i].value)
        /\ ri' = ri + 1
        /\ UNCHANGED <<npc, normalizer, cells, staged_rows>>
        /\ UNCHANGED <<pipeVars, predVars, mergeVars, genVars, deployVars>>

\* An exception left the tuple expression: the row's handler logs a warning
\* and continues with the next row.
NormRowDropped ==
    \E i \in 1..Len(cells) :
        /\ NormRowAt(i)
        /\ Apply(normalizer, cells[i]).raised
        /\ outcomes' = Append(outcomes, Raises)
        /\ ri' = ri + 1
        /\ UNCHANGED <<npc, normalizer, cells, records, staged_rows>>
        /\ UNCHANGED <<pipeVars, predVars, mergeVars, genVars, deployVars>>

\* The reader is exhausted: the parser returns its records.
NormReturn ==
    /\ npc = "parsing"
    /\ ri > Len(cells)
    /\ npc' = "returned"
    /\ UNCHANGED <<normalizer, cells, ri, outcomes, records, staged_rows>>
    /\ UNCHANGED <<pipeVars, predVars, mergeVars, genVars, deployVars>>

\* db.insert_<entity>(parsed_data): every record the parser returned is bound
\* to the INSERT of executemany; an empty list is not inserted.
NormInsert ==
    /\ npc = "returned"
    /\ records # <<>>
    /\ staged_rows' = [i \in 1..Len(records) |-> BindValue(records[i])]
    /\ npc' = "staged"
    /\ UNCHANGED <<normalizer, cells, ri, outcomes, records>>
    /\ UNCHANGED <<pipeVars, predVars, mergeVars, genVars, deployVars>>

\* ------------------------------------------------ the WHERE clause tools
\* The data types get_nvl_default_value has a branch for; any other type
\* reaches the final else, which prints "Warning: Unknown data type".
KnownDataTypes ==
    {"VARCHAR2", "CHAR", "NVARCHAR2", "NCHAR", "CLOB", "NCLOB", "NUMBER",
     "INTEGER", "INT", "SMALLINT", "FLOAT", "DOUBLE PRECISION", "REAL",
     "BINARY_FLOAT", "BINARY_DOUBLE", "DATE", "BLOB", "RAW", "LONG RAW"}
        \cup TimestampTypes

\* Columns of the warehouse tables as USER_TAB_COLUMNS reports them
\* (get_column_info leaves DW_LAST_INSERTED and DW_LAST_UPDATED out).
TableColumns ==
    {[name |-> <<"I", "D">>, data_type |-> "NUMBER", data_precision |-> None,
      data_scale |-> None],
     [name |-> <<"P", "I", "E", "R", "_", "I", "D">>, data_type |-> "NUMBER", data_precision |-> None,
      data_scale |-> None],
     [name |-> <<"A", "C", "T", "I", "V", "E">>, data_type |-> "NUMBER", data_precision |-> {1},
      data_scale |-> {0}],
     [name |-> <<"T", "A", "X">>, data_type |-> "NUMBER", data_precision |-> {10},
      data_scale |-> {2}],
     [name |-> <<"T", "O", "T", "A", "L">>, data_type |-> "NUMBER", data_precision |-> {10},
      data_scale |-> {2}],
     [name |-> <<"N", "A", "M", "E">>, data_type |-> "VARCHAR2", data_precision |-> None,
      data_scale |-> None],
     [name |-> <<"L", "E", "N", "G", "T", "H">>, data_type |-> "FLOAT", data_precision |-> {126},
      data_scale |-> None],
     [name |-> <<"S", "T", "A", "R", "T", "_", "D", "A", "T", "E">>, data_type |-> "DATE", data_precision |-> None,
      data_scale |-> None],
     [name |-> <<"C", "R", "E", "A", "T", "E", "D">>, data_type |-> "TIMESTAMP(6)",
      data_precision |-> None, data_scale |-> {6}],
     [name |-> <<"U", "P", "D", "A", "T", "E", "D">>, data_type |-> "TIMESTAMP(6) WITH TIME ZONE",
      data_precision |-> None, data_scale |-> {6}],
     [name |-> <<"P", "H", "O", "T", "O">>, data_type |-> "BLOB", data_precision |-> None,
      data_scale |-> None],
     [name |-> <<"D", "U", "R", "A", "T", "I", "O", "N">>, data_type |-> "INTERVAL DAY(2) TO SECOND(6)",
      data_precision |-> {2}, data_scale |-> {6}]}

\* x in s, for two Python strings.
IsSubstring(x, s) ==
    \E k \in 0..(Len(s) - Len(x)) : SubSeq(s, k + 1, k + Len(x)) = x

\* The null substitute generate_where_clause_for_columns picks for a column
\* from the words in its name.
null_value_for_name(col_name) ==
    IF \E x \in {<<"D", "A", "T", "E">>, <<"T", "I", "M", "E">>, <<"T", "I", "M", "E", "S", "T", "A", "M", "P">>} : IsSubstring(x, upper(col_name))
    THEN "TO_TIMESTAMP('1900-01-01', 'YYYY-MM-DD')"
    ELSE IF \E x \in {<<"_", "I", "D">>, <<"C", "O", "U", "N", "T">>, <<"N", "U", "M", "B", "E", "R">>, <<"A", "M", "O", "U", "N", "T">>, <<"Q", "U", "A", "N", "T", "I", "T", "Y">>,
                      <<"P", "R", "I", "C", "E">>, <<"F", "E", "E">>, <<"T", "A", "X">>, <<"R", "A", "T", "E">>, <<"M", "I", "N", "U", "T", "E", "S">>, <<"H", "O", "U", "R", "S">>,
                      <<"D", "A", "Y", "S">>, <<"C", "A", "P">>} : IsSubstring(x, upper(col_name))
    THEN IF \/ IsSubstring(<<"F", "L", "O", "A", "T">>, upper(col_name))
            \/ IsSubstring(<<"D", "E", "C", "I", "M", "A", "L">>, upper(col_name))
            \/ upper(col_name) \in {<<"T", "A", "X">>, <<"P", "R", "I", "C", "E">>, <<"F", "E", "E">>, <<"A", "M", "O", "U", "N", "T">>}
         THEN "-999999"
         ELSE "-1"
    ELSE "'~'"

\* generate_where_clause_for_columns(columns) of
\* update_merge_procedures_with_where.py: one != condition per column of the
\* UPDATE SET list, the audit columns skipped.
generate_where_clause_for_columns(columns) ==
    LET kept == SelectSeq([i \in 1..Len(columns) |-> [at |-> i, name |-> columns[i]]],
                          LAMBDA c : c.name \notin {<<"D", "W", "_", "L", "A", "S", "T", "_", "U", "P", "D", "A", "T", "E", "D">>,
                                                    <<"D", "W", "_", "L", "A", "S", "T", "_", "I", "N", "S", "E", "R", "T", "E", "D">>})
    IN  [k \in 1..Len(kept) |->
            [col |-> kept[k].at, op |-> "!=",
             tgt_default |-> null_value_for_name(kept[k].name),
             src_default |-> null_value_for_name(kept[k].name)]]

\* The columns the procedure of a table assigns in UPDATE SET: the table's
\* columns, then tgt.DW_LAST_UPDATED = SYSTIMESTAMP.
column_assignments(cols) ==
    [i \in 1..Len(cols) |-> cols[i].name] \o <<<<"D", "W", "_", "L", "A", "S", "T", "_", "U", "P", "D", "A", "T", "E", "D">>>>

\* add_where_clause_to_merge(sql_content): leaves the file alone when it
\* finds a WHERE after DW_LAST_UPDATED = SYSTIMESTAMP or builds no condition.
add_where_clause_to_merge(sql_content, cols) ==
    IF sql_content.has_where THEN sql_content
    ELSE IF generate_where_clause_for_columns(column_assignments(cols)) = <<>>
    THEN sql_content
    ELSE [has_where |-> TRUE,
          where |-> generate_where_clause_for_columns(column_assignments(cols))]

\* A generator that hands on whatever the schema query returned.
generate_unchecked_where_clause(cols) == {generate_where_clause(cols)}

\* generate_merge_where_clause(table_name, config): None when the schema
\* query returns no row, the generated clause otherwise.
generate_merge_where_clause(cols) ==
    IF cols = <<>> THEN None ELSE {generate_where_clause(cols)}

\* The types of the columns for which the warning is printed; nothing is
\* printed when generation stops at the empty schema.
unknown_data_types(cols) ==
    {cols[i].data_type : i \in {j \in 1..Len(cols) :
                                   cols[j].data_type \notin KnownDataTypes}}

\* Schemas: up to MaxCols columns of the table, in COLUMN_ID order; none when
\* the table was renamed or dropped.
Schemas == UNION {[1..n -> TableColumns] : n \in 0..MaxCols}

\* The columns of the table when the procedure file was last rewritten.
EarlierSchemas ==
    {<<c>> : c \in {d \in TableColumns : d.name \in {<<"I", "D">>, <<"T", "A", "X">>}}}

\* Procedure files the tools can meet: as written by hand, or as one of the
\* two tools left it on an earlier run.
ProcedureFiles ==
    {BaseProcedure}
        \cup {update_stored_procedure(BaseProcedure, generate_where_clause(s)) :
                s \in EarlierSchemas}
        \cup {add_where_clause_to_merge(BaseProcedure, s) : s \in EarlierSchemas}

GenInit ==
    /\ gpc = "start"
    /\ live_columns \in Schemas
    /\ proc_file_given \in BOOLEAN
    /\ content \in ProcedureFiles
    /\ content_before = content
    /\ tool = "none"
    /\ new_where_clause = None
    /\ warnings = {}

\* generate_where_clause.py, first half of __main__: the schema is read and
\* the clause generated.
GenGenerate ==
    /\ gpc = "start"
    /\ tool' = "generate_where_clause.py"
    /\ new_where_clause' = generate_merge_where_clause(live_columns)
    /\ warnings' = IF live_columns = <<>> THEN {}
                   ELSE unknown_data_types(live_columns)
    /\ gpc' = "generated"
    /\ UNCHANGED <<live_columns, proc_file_given, content, content_before>>
    /\ UNCHANGED <<pipeVars, predVars, mergeVars, normVars, deployVars>>

\* `if len(sys.argv) >= 3 and where_clause: update_stored_procedure(...)`
GenUpdate ==
    /\ gpc = "generated"
    /\ proc_file_given
    /\ new_where_clause # None
    /\ content' = update_stored_procedure(content, Text(new_where_clause))
    /\ gpc' = "done"
    /\ UNCHANGED <<live_columns, proc_file_given, content_before, tool,
                   new_where_clause, warnings>>
    /\ UNCHANGED <<pipeVars, predVars, mergeVars, normVars, deployVars>>

\* The script ends without touching the file.
GenNoUpdate ==
    /\ gpc = "generated"
    /\ ~(proc_file_given /\ new_where_clause # None)
    /\ gpc' = "done"
    /\ UNCHANGED <<live_columns, proc_file_given, content, content_before,
                   tool, new_where_clause, warnings>>
    /\ UNCHANGED <<pipeVars, predVars, mergeVars, normVars, deployVars>>

\* update_merge_procedures_with_where.py on the same file:
\* process_stored_procedure_file writes what add_where_clause_to_merge
\* returns when it differs from what it read.
GenByName ==
    /\ gpc = "start"
    /\ tool' = "update_merge_procedures_with_where.py"
    /\ new_where_clause' =
          IF content.has_where THEN None
          ELSE {generate_where_clause_for_columns(
                    column_assignments(live_columns))}
    /\ content' = add_where_clause_to_merge(content, live_columns)
    /\ gpc' = "done"
    /\ UNCHANGED <<live_columns, proc_file_given, content_before, warnings>>
    /\ UNCHANGED <<pipeVars, predVars, mergeVars, normVars, deployVars>>

GenIdle ==
    /\ gpc = "idle"
    /\ live_columns = <<>>
    /\ proc_file_given = FALSE
    /\ content = <<>>
    /\ content_before = <<>>
    /\ tool = "none"
    /\ new_where_clause = None
    /\ warnings = {}

\* ------------------------------------------ deploy_updated_procedures.py
NumProcedures == 3

\* The listed procedure files, by position in the list.
UPDATED_PROCEDURES == 1..NumProcedures

\* What user_objects can report for a procedure that is not VALID; no row at
\* all is printed as NOT FOUND.
NotValidStatuses == {"INVALID", "NOT FOUND"}

DeployLoopAt(p) ==
    /\ dpc = "loop"
    /\ proc_index <= NumProcedures
    /\ p = proc_index

DeployInit ==
    /\ dpc = "loop"
    /\ proc_index = 1
    /\ success_count = 0
    /\ deploy_error_count = 0
    /\ errors = <<>>
    /\ deploy_exit = {}

\* os.path.exists is false: the error is counted and the loop continues.
DeployFileNotFound ==
    \E p \in UPDATED_PROCEDURES :
        /\ DeployLoopAt(p)
        /\ deploy_error_count' = deploy_error_count + 1
        /\ errors' = Append(errors, <<p, "File not found">>)
        /\ proc_index' = proc_index + 1
        /\ UNCHANGED <<dpc, success_count, deploy_exit>>
        /\ UNCHANGED <<pipeVars, predVars, mergeVars, normVars, genVars>>

\* Reading the file, CREATE OR REPLACE or the status query raises: the except
\* handler counts the error.
DeployRaises ==
    \E p \in UPDATED_PROCEDURES :
        /\ DeployLoopAt(p)
        /\ deploy_error_count' = deploy_error_count + 1
        /\ errors' = Append(errors, <<p, "exception">>)
        /\ proc_index' = proc_index + 1
        /\ UNCHANGED <<dpc, success_count, deploy_exit>>
        /\ UNCHANGED <<pipeVars, predVars, mergeVars, normVars, genVars>>

\* The status row says VALID.
DeployValid ==
    \E p \in UPDATED_PROCEDURES :
        /\ DeployLoopAt(p)
        /\ success_count' = success_count + 1
        /\ proc_index' = proc_index + 1
        /\ UNCHANGED <<dpc, deploy_error_count, errors, deploy_exit>>
        /\ UNCHANGED <<pipeVars, predVars, mergeVars, normVars, genVars>>

\* Any other status: the else branch counts the error and, for INVALID,
\* prints the rows of user_errors.
DeployNotValid ==
    \E p \in UPDATED_PROCEDURES, status \in NotValidStatuses :
        /\ DeployLoopAt(p)
        /\ deploy_error_count' = deploy_error_count + 1
        /\ errors' = Append(errors, <<p, status>>)
        /\ proc_index' = proc_index + 1
        /\ UNCHANGED <<dpc, success_count, deploy_exit>>
        /\ UNCHANGED <<pipeVars, predVars, mergeVars, normVars, genVars>>

\* Status INVALID, and the user_errors query (or printing one of its rows)
\* raises: the else branch has already counted the procedure, and the query
\* is inside the same try, so the except handler counts it again.
DeployInvalidThenRaises ==
    \E p \in UPDATED_PROCEDURES :
        /\ DeployLoopAt(p)
        /\ deploy_error_count' = (deploy_error_count + 1) + 1
        /\ errors' = Append(Append(errors, <<p, "INVALID">>),
                            <<p, "exception">>)
        /\ proc_index' = proc_index + 1
        /\ UNCHANGED <<dpc, success_count, deploy_exit>>
        /\ UNCHANGED <<pipeVars, predVars, mergeVars, normVars, genVars>>

\* The loop is over: the summary is printed.
DeploySummary ==
    /\ dpc = "loop"
    /\ proc_index > NumProcedures
    /\ dpc' = "summary"
    /\ UNCHANGED <<proc_index, success_count, deploy_error_count, errors,
                   deploy_exit>>
    /\ UNCHANGED <<pipeVars, predVars, mergeVars, normVars, genVars>>

\* sys.exit(0 if error_count == 0 else 1)
DeployExit ==
    /\ dpc = "summary"
    /\ deploy_exit' = {IF deploy_error_count = 0 THEN 0 ELSE 1}
    /\ dpc' = "exited"
    /\ UNCHANGED <<proc_index, success_count, deploy_error_count, errors>>
    /\ UNCHANGED <<pipeVars, predVars, mergeVars, normVars, genVars>>

DeployIdle ==
    /\ dpc = "idle"
    /\ proc_index = 1
    /\ success_count = 0
    /\ deploy_error_count = 0
    /\ errors = <<>>
    /\ deploy_exit = {}

\* ========================================================= specifications
MergeIdle ==
    /\ mpc = "idle"
    /\ proc = <<>>
    /\ payload = <<>>
    /\ staging = {}
    /\ dw = <<>>
    /\ systimestamp = 0
    /\ cycle = 0
    /\ prev_payload = <<>>
    /\ dw_before = <<>>
    /\ rows_updated = 0
    /\ merge_result = "none"

NormIdle ==
    /\ npc = "idle"
    /\ normalizer = "none"
    /\ cells = <<>>
    /\ ri = 1
    /\ outcomes = <<>>
    /\ records = <<>>
    /\ staged_rows = <<>>

Init == PipeInit /\ PredIdle /\ MergeIdle /\ NormIdle /\ GenIdle /\ DeployIdle

Next ==
    \/ MoloNoTargets
    \/ MoloTruncate
    \/ MoloTruncateRaises
    \/ MoloParseRaises
    \/ MoloInsertEmpty
    \/ MoloInsertOk
    \/ MoloInsertRejected
    \/ MoloMergeOk
    \/ MoloMergeFails
    \/ MoloReturn
    \/ StellarDownloadFails
    \/ StellarEmpty
    \/ StellarTruncateFails
    \/ StellarInsertOk
    \/ StellarInsertRejected
    \/ StellarFinish
    \/ NextRun

Spec == Init /\ [][Next]_vars

PredNext ==
    \/ PredStage
    \/ PredGenerate
    \/ PredEvaluate

\* The predicate is generated and evaluated while no pipeline run is going on.
PredSpecInit ==
    PredInit /\ PipeInit /\ MergeIdle /\ NormIdle /\ GenIdle /\ DeployIdle

PredSpec == PredSpecInit /\ [][PredNext]_vars

MergeNext ==
    \/ MergeDeploy
    \/ MergeClear
    \/ MergeStage
    \/ MergeReconcile
    \/ MergeReconcileFails

MergeSpecInit ==
    MergeInit /\ PipeInit /\ PredIdle /\ NormIdle /\ GenIdle /\ DeployIdle

MergeSpec == MergeSpecInit /\ [][MergeNext]_vars


NormNext ==
    \/ NormRowKept
    \/ NormRowDropped
    \/ NormReturn
    \/ NormInsert

\* A parser runs on its CSV text before the loop touches the database.
NormSpecInit ==
    NormInit /\ PipeInit /\ PredIdle /\ MergeIdle /\ GenIdle /\ DeployIdle

NormSpec == NormSpecInit /\ [][NormNext]_vars

GenNext ==
    \/ GenGenerate
    \/ GenUpdate
    \/ GenNoUpdate
    \/ GenByName

\* The tools are run by hand between pipeline runs.
GenSpecInit ==
    GenInit /\ PipeInit /\ PredIdle /\ MergeIdle /\ NormIdle /\ DeployIdle

GenSpec == GenSpecInit /\ [][GenNext]_vars

DeployNext ==
    \/ DeployFileNotFound
    \/ DeployRaises
    \/ DeployValid
    \/ DeployNotValid
    \/ DeployInvalidThenRaises
    \/ DeploySummary
    \/ DeployExit

\* The procedures are deployed while no pipeline run is going on.
DeploySpecInit ==
    DeployInit /\ PipeInit /\ PredIdle /\ MergeIdle /\ NormIdle /\ GenIdle

DeploySpec == DeploySpecInit /\ [][DeployNext]_vars
\* ===================================================== pipeline properties
Failed == {"error", "failed"}
Succeeded == {"processed", "successful"}

\* C1: in both run loops a failure of one entity never ends the loop: every
\* queued entity is attempted exactly once whatever happened to the entities
\* before it, and the MOLO function goes on to its merge step instead of
\* raising.
C1_EveryEntityAttemptedOnce ==
    /\ \A e \in AllEntities : attempts[e] <= 1
    /\ pc = "molo_loop" =>
          \A i \in 1..Len(archive) :
              attempts[archive[i]] = (IF i < mi THEN 1 ELSE 0)
    /\ pc = "molo_summary" =>
          /\ \A i \in 1..Len(archive) : attempts[archive[i]] = 1
          /\ processed_count + error_count = Len(archive)
          /\ tMerge > 0
    /\ pc = "stellar_loop" =>
          \A i \in 1..NumStellar :
              attempts[tables_to_process[i]] = (IF i < si THEN 1 ELSE 0)
    /\ pc = "run_done" => \A t \in StellarEntities : attempts[t] = 1

\* C1 witness: the MOLO loop is over, its first entity failed and the entity
\* after it was attempted and processed.
C1_Witness ==
    /\ pc = "molo_summary"
    /\ Len(archive) >= 2
    /\ result[archive[1]] = "error"
    /\ result[archive[2]] = "processed"

\* C2: an entity whose bulk insert the database rejected is recorded as
\* failed (MOLO error_count, Stellar failed_tables) and never as a success,
\* and an entity whose bulk insert committed is recorded as a success.
C2_RejectedInsertIsFailed ==
    \A e \in AllEntities :
        /\ rejected[e] => result[e] \in Failed
        /\ (insertIssued[e] /\ ~rejected[e]) => result[e] \in Succeeded

\* C3: for every entity the clear of its staging table precedes its bulk
\* insert, and its bulk insert precedes the call of
\* SP_RUN_ALL_MOLO_STELLAR_MERGES of the run.
C3_ClearStageReconcileOrder ==
    \A e \in AllEntities :
        tInsert[e] > 0 =>
            /\ 0 < tClear[e]
            /\ tClear[e] < tInsert[e]
            /\ tMerge > 0 => tInsert[e] < tMerge

\* C4: when a run ends, every staging table holds only rows that were
\* bulk-inserted during that run, and no row left over from an earlier run.
C4_StagingHoldsOnlyCurrentRun ==
    pc = "run_done" => \A e \in AllEntities : "stale" \notin stg[e]

\* C5: an entity whose staging clear failed gets no bulk insert, is not
\* counted as a success, and ends its loop marked as failed.
C5_ClearFailureStopsEntity ==
    \A e \in AllEntities :
        clearFailed[e] =>
            /\ ~insertIssued[e]
            /\ result[e] \notin Succeeded
            /\ pc \in {"molo_summary", "run_done"} => result[e] \in Failed

\* C10: an entity whose payload parses to zero rows gets no bulk insert and
\* is not recorded among the failed entities.
C10_EmptyPayloadIsNotFailure ==
    \A e \in AllEntities :
        emptyPayload[e] =>
            /\ ~insertIssued[e]
            /\ result[e] \notin Failed
            /\ \A i \in 1..Len(failed_tables) : failed_tables[i] # e

\* C12: when run_all_merges failed, the MOLO run does not report the merge
\* as completed successfully and its summary does not report an error-free
\* run.
C12_FailedMergeIsReported ==
    mergeStatus = "rolled_back" =>
        /\ merge_message # MergeCompleted
        /\ summary_message # AllProcessed

\* C13: the exit status of a pipeline run is non-zero when some MOLO or
\* Stellar entity was recorded as failed, and zero only when none was.
C13_ExitStatusReflectsFailures ==
    pc = "run_done" =>
        /\ exit_status # {}
        /\ entityFailed => 0 \notin exit_status
        /\ ~entityFailed => exit_status = {0}

\* The entities the running loop has attempted so far.
Attempted(entities) == {e \in entities : attempts[e] > 0}

\* C14: every entity attempted increments exactly one outcome counter: the
\* MOLO counters sum to the number of files attempted, successful_tables
\* plus the length of failed_tables is the number of tables attempted, and
\* no table is both successful and listed in failed_tables, or listed twice.
C14_OneOutcomePerEntity ==
    /\ processed_count + skipped_count + error_count
          = Cardinality(Attempted(MoloEntities))
    /\ successful_tables + Len(failed_tables)
          = Cardinality(Attempted(StellarEntities))
    /\ \A i, j \in 1..Len(failed_tables) :
          /\ i # j => failed_tables[i] # failed_tables[j]
          /\ result[failed_tables[i]] = "failed"
    /\ successful_tables
          = Cardinality({t \in StellarEntities : result[t] = "successful"})
    /\ processed_count
          = Cardinality({e \in MoloEntities : result[e] = "processed"})
    /\ error_count
          = Cardinality({e \in MoloEntities : result[e] = "error"})

\* C14 witness: a MOLO loop that ended with one file processed and one in
\* error.
C14_Witness ==
    /\ pc = "molo_summary"
    /\ processed_count >= 1
    /\ error_count >= 1
    /\ Cardinality(Attempted(MoloEntities)) = Len(archive)

\* Position of a file name in TARGET_CSV_FILES.
TargetIndex(name) ==
    CHOOSE i \in 1..Len(TARGET_CSV_FILES) : TARGET_CSV_FILES[i] = name

\* C15: the MOLO loop visits the extracted files in TARGET_CSV_FILES order
\* whatever the order of the files in the archive, and the Stellar loop
\* visits the tables in tables_to_process order.
C15_DeclaredOrder ==
    /\ \A i, j \in 1..Len(archive) :
          i < j => TargetIndex(archive[i]) < TargetIndex(archive[j])
    /\ \A i, j \in 1..NumStellar :
          (attempts[tables_to_process[j]] > 0 /\ i < j)
              => attempts[tables_to_process[i]] > 0

\* C29: once read_s3_zip_and_insert_to_db has connected, the connection is
\* closed by the time the function has returned, whichever way it returned.
C29_ConnectionClosedOnReturn ==
    pc \in {"molo_summary", "stellar_loop", "run_done"} => db # "open"

\* ============================================== change-predicate properties
RowsEqual == \A i \in 1..Len(columns_info) : tgt[i] = src[i]

\* C7: whenever exactly one of the staged value and the warehouse value of a
\* column is NULL, the generated change predicate is true: the substitute
\* for NULL is never met as a staged value.
C7_NullTransitionDetected ==
    ppc = "evaluated" =>
        ((\E i \in 1..Len(columns_info) : (tgt[i] = NULL) # (src[i] = NULL))
            => predicate = "TRUE")

\* C8: for a staged row and a warehouse row whose columns are pairwise equal,
\* NULL on both sides counting as equal, the generated change predicate is
\* false.
C8_EqualRowsNotChanged ==
    (ppc = "evaluated" /\ RowsEqual) => predicate = "FALSE"

\* C8 witness: the predicate was evaluated on two equal rows with a column
\* that is NULL on both sides and a column that holds a value on both.
C8_Witness ==
    /\ ppc = "evaluated"
    /\ RowsEqual
    /\ \E i \in 1..Len(columns_info) : tgt[i] = NULL /\ src[i] = NULL
    /\ \E i \in 1..Len(columns_info) : tgt[i] # NULL /\ rawTgt[i] # rawSrc[i]
    /\ predicate = "FALSE"

\* ===================================================== merge properties
\* The generated change predicate of the entity's table on a warehouse row
\* and a staged row.
GeneratedPredicate(t, s) ==
    EvalWhere(generate_where_clause(merge_columns_info), t.vals, s)

C9_MergeChangesOnlyAffectedRows ==
    (mpc = "clear" /\ cycle >= 1) =>
        /\ \A t \in dw_before :
              /\ (\A s \in staging :
                      Matches(t, s) => GeneratedPredicate(t, s) # "TRUE")
                    => t \in dw
              /\ (\A s \in staging : Matches(t, s) => s = t.vals) => t \in dw
              /\ \E u \in dw : u.vals[1] = t.vals[1]
        /\ Cardinality(dw) >= Cardinality(dw_before)

\* C9 witness: the last reconciliation met a warehouse row that no staged row
\* matches and a warehouse row whose staged row gives a false predicate, and
\* left both as they were.
C9_Witness ==
    /\ mpc = "clear"
    /\ cycle >= 2
    /\ \E t \in dw_before :
          /\ \A s \in staging : ~Matches(t, s)
          /\ t \in dw
    /\ \E t \in dw_before :
          /\ \E s \in staging :
                 Matches(t, s) /\ GeneratedPredicate(t, s) = "FALSE"
          /\ t \in dw

C16_NoRowDiscarded ==
    /\ Len(records) = ri - 1
    /\ \A i \in 1..Len(outcomes) : ~outcomes[i].raised
    /\ npc = "returned" => Len(records) = Len(cells)

\* The rows whose field is absent: a short row, or an empty field.
AbsentRows == {i \in 1..Len(outcomes) : cells[i] \in {None, {<<>>}}}

\* C17: a numeric normalizer turns an absent field into the absent marker,
\* never into 0 or 0.0, so an absent field and a field "0" are never staged
\* as the same value.
C17_AbsentIsNeverZero ==
    normalizer \in IntegerNormalizers \cup FloatNormalizers =>
        \A i \in AbsentRows :
            /\ ~outcomes[i].raised
            /\ outcomes[i].value = NULL
            /\ outcomes[i].value # Apply(normalizer, {<<"0">>}).value

\* The field of row i, trimmed and in upper case (the empty text if absent).
Trimmed(i) == IF cells[i] = None THEN <<>> ELSE strip(Text(cells[i]))

\* C18: a boolean normalizer maps TRUE, T, 1, YES, Y in any letter case to
\* 1 and FALSE, F, 0, NO, N to 0; every other field, absent included, gets
\* the default (None or 0) together with a logged indication.
C18_BooleanMapping ==
    normalizer \in BooleanNormalizers =>
        \A i \in 1..Len(outcomes) :
            /\ ~outcomes[i].raised
            /\ upper(Trimmed(i)) \in TrueTexts
                  => outcomes[i].value = Integer(1)
            /\ upper(Trimmed(i)) \in FalseTexts
                  => outcomes[i].value = Integer(0)
            /\ upper(Trimmed(i)) \notin TrueTexts \cup FalseTexts
                  => /\ outcomes[i].value \in {NULL, Integer(0)}
                     /\ outcomes[i].logged

\* C19: an integer normalizer reads a text with a decimal point that stands
\* for a whole number ("5.0", "1.0") as that integer.
C19_WholeFloatRecovered ==
    normalizer \in IntegerNormalizers =>
        \A i \in 1..Len(outcomes) :
            (/\ cells[i] # None
             /\ Contains(Text(cells[i]), ".")
             /\ IsFloatLiteral(Text(cells[i]))
             /\ FloatIsInteger(Text(cells[i])))
                => outcomes[i].value = Integer(FloatToInt(Text(cells[i])))

\* C20: a string normalizer returns the absent marker for a field that,
\* trimmed, is "", "NULL", "N/A" or "NONE" in any letter case, and otherwise
\* the trimmed field cut to the declared maximum length; it never raises.
C20_StringSentinelsAndLength ==
    normalizer \in StringNormalizers =>
        \A i \in 1..Len(outcomes) :
            /\ ~outcomes[i].raised
            /\ upper(Trimmed(i)) \in NullTexts => outcomes[i].value = NULL
            /\ upper(Trimmed(i)) \notin NullTexts
                  => outcomes[i].value
                        = String(Truncate(Trimmed(i), {MaxLength}))

\* %m/%d/%Y and %d/%m/%Y
MonthFirst == date_formats[2]
DayFirst == date_formats[3]

\* C21: a date parser returns the first format of its list that parses: a
\* text that %m/%d/%Y parses is read month first ("03/04/2024" is March 4,
\* 2024), and it is read day first only when %m/%d/%Y does not parse it.
C21_MonthFirstWins ==
    normalizer \in {"parse_date", "parse_contacts_data.safe_date",
                    "parse_contacts_data.safe_datetime"} =>
        \A i \in 1..Len(outcomes) :
            /\ ~outcomes[i].raised
            /\ StrptimeMatches(Trimmed(i), MonthFirst)
                  => outcomes[i].value.n = Strptime(Trimmed(i), MonthFirst).n
            /\ (/\ StrptimeMatches(Trimmed(i), DayFirst)
                /\ ~StrptimeMatches(Trimmed(i), MonthFirst))
                  => outcomes[i].value.n = Strptime(Trimmed(i), DayFirst).n
            /\ Trimmed(i) = <<"0", "3", "/", "0", "4", "/", "2", "0", "2", "4">>
                  => outcomes[i].value.n = Date(2024, 3, 4).n

\* C21 witness: safe_date read "03/04/2024" as March 4 and, in the same
\* payload, "13/04/2024" as April 13.
C21_Witness ==
    /\ normalizer = "parse_contacts_data.safe_date"
    /\ npc = "returned"
    /\ \E i \in 1..Len(outcomes) :
          /\ StrptimeMatches(Trimmed(i), MonthFirst)
          /\ StrptimeMatches(Trimmed(i), DayFirst)
          /\ outcomes[i].value = Date(2024, 3, 4)
    /\ \E i \in 1..Len(outcomes) :
          /\ ~StrptimeMatches(Trimmed(i), MonthFirst)
          /\ outcomes[i].value = Date(2024, 4, 13)

\* A payload of three rows of which only the second carries a timestamp
\* text that no format of parse_datetime parses.
OnlyRowTwoUnparsable ==
    /\ normalizer = "parse_reservations_data.CreationTime"
    /\ Len(cells) = 3
    /\ \A i \in 1..3 : cells[i] # None /\ Trimmed(i) # <<>>
    /\ \A i \in 1..3 :
          (FirstMatch(Trimmed(i), datetime_formats) = 0) <=> (i = 2)

KeyNormalizers == {"parse_int", "stellar.parse_int"}

\* C23: no tuple bound to a bulk insert has NULL or the empty string in its
\* key position.
C23_KeyNeverNull ==
    normalizer \in KeyNormalizers =>
        \A i \in 1..Len(staged_rows) : staged_rows[i] # NULL

\* C28: when an integer normalizer returns an integer for a numeric text,
\* the integer is the value of the text: "5.5" is never staged as 5.
C28_IntegerNotTruncated ==
    normalizer \in IntegerNormalizers =>
        \A i \in 1..Len(outcomes) :
            (/\ cells[i] # None
             /\ IsFloatLiteral(Text(cells[i]))
             /\ outcomes[i].value # NULL)
                => outcomes[i].value = Number(FloatOf(Text(cells[i])))

\* ------------------------------------------- properties of the WHERE tools
DeclaredType(c) == <<c.data_type, c.data_precision, c.data_scale>>

\* C24: whichever tool built the predicate, two columns of the same declared
\* type get the same null substitute: the substitute never depends on the
\* column's name.
C24_SubstituteByTypeOnly ==
    new_where_clause # None =>
        \A a, b \in 1..Len(Text(new_where_clause)) :
            DeclaredType(live_columns[Text(new_where_clause)[a].col])
                = DeclaredType(live_columns[Text(new_where_clause)[b].col])
            => Text(new_where_clause)[a].tgt_default
                = Text(new_where_clause)[b].tgt_default

\* C25: when the schema query of generate_where_clause.py returns no column,
\* no predicate is returned and the procedure file stays as it was.
C25_NoColumnsNoPredicate ==
    (tool = "generate_where_clause.py" /\ live_columns = <<>>)
        => (new_where_clause = None /\ content = content_before)

C25_Witness ==
    /\ gpc = "done"
    /\ tool = "generate_where_clause.py"
    /\ live_columns = <<>>
    /\ proc_file_given
    /\ content = content_before

\* The substitute the mapping is expected to give a column, as the value
\* Oracle reads from the literal.
ExpectedSubstitute(c) ==
    IF c.data_type \in {"VARCHAR2", "CHAR", "NVARCHAR2", "NCHAR", "CLOB",
                        "NCLOB"}
    THEN String(<<"~", "N", "U", "L", "L", "~">>)
    ELSE IF \/ c.data_type = "NUMBER" /\ \E scale \in c.data_scale : scale > 0
            \/ c.data_type \in {"FLOAT", "DOUBLE PRECISION", "REAL",
                                "BINARY_FLOAT", "BINARY_DOUBLE"}
    THEN Number(-999999)
    ELSE IF c.data_type \in {"NUMBER", "INTEGER", "INT", "SMALLINT"}
    THEN Integer(-999)
    ELSE IF c.data_type = "DATE" \/ c.data_type \in TimestampTypes
    THEN Date(1900, 1, 1)
    ELSE IF c.data_type \in {"BLOB", "RAW", "LONG RAW"}
    THEN RawBytes(<<"0", "0">>)
    ELSE String(<<"~", "N", "U", "L", "L", "~">>)

\* C26: the clause generate_where_clause.py builds has one condition per
\* live column, with the same substitute on both sides: '~NULL~' for
\* character types, -999.999 for scaled NUMBER and floating types, -999 for
\* unscaled NUMBER and integer types, 1900-01-01 for DATE and, with the time
\* 00:00:00, for every TIMESTAMP variant, one zero byte for BLOB/RAW; a
\* column of any other type gets '~NULL~' and a warning, and the columns
\* after it are still generated.
C26_SubstituteMapping ==
    (tool = "generate_where_clause.py" /\ new_where_clause # None) =>
        /\ Len(Text(new_where_clause)) = Len(live_columns)
        /\ \A i \in 1..Len(live_columns) :
            LET c == live_columns[i]
                cond == Text(new_where_clause)[i]
            IN  /\ cond.col = i
                /\ cond.src_default = cond.tgt_default
                /\ SqlLiteral(cond.tgt_default) = ExpectedSubstitute(c)
                /\ c.data_type = "DATE"
                    => cond.tgt_default = "TO_DATE('1900-01-01','YYYY-MM-DD')"
                /\ c.data_type \in TimestampTypes
                    => cond.tgt_default =
                        "TO_TIMESTAMP('1900-01-01 00:00:00','YYYY-MM-DD HH24:MI:SS')"
                /\ c.data_type \notin KnownDataTypes
                    => c.data_type \in warnings

\* An unknown type in first position, a scaled NUMBER after it.
C26_Witness ==
    /\ tool = "generate_where_clause.py"
    /\ new_where_clause # None
    /\ Len(live_columns) >= 2
    /\ live_columns[1].data_type \notin KnownDataTypes
    /\ live_columns[2].data_type = "NUMBER"
    /\ \E scale \in live_columns[2].data_scale : scale > 0
    /\ Text(new_where_clause)[2].tgt_default = "-999.999"

\* C27: after generate_where_clause.py has called update_stored_procedure on
\* the file, the file has exactly one WHERE clause between the two markers
\* and it is the clause just generated, whatever WHERE clause the file had.
C27_WhereClauseReplaced ==
    (gpc = "done" /\ tool = "generate_where_clause.py" /\ proc_file_given
        /\ new_where_clause # None)
        => content = [has_where |-> TRUE, where |-> Text(new_where_clause)]

\* --------------------------------------------- properties of the deployment
\* C30: every listed procedure is attempted and counted exactly once, as a
\* success or as an error: when the summary is printed, success_count plus
\* error_count is the number of listed procedures.
C30_EveryProcedureCountedOnce ==
    dpc \in {"summary", "exited"}
        => success_count + deploy_error_count = NumProcedures

====
